---------------------------- MODULE Spec2Model ----------------------------
(***************************************************************************)
(* Protocol engine of the iOptron telescope driver                         *)
(* (src/drivers/iOptron/Telescope/telescopedriver_iOptron.cpp).            *)
(*                                                                         *)
(* The specifications of this module share its variables:                  *)
(*   SpecFramer  one iOptron_SendCommand request, byte by byte, with the   *)
(*               time each select() call waits;                            *)
(*   Spec        the driver object: command queue, intent calls, the       *)
(*               queue drain and disconnect/connect, every handler run to  *)
(*               completion before the next one starts;                    *)
(*   SpecConc    the same steps of the same handlers, interleaved between  *)
(*               the host thread, the worker thread and the disconnect;    *)
(*   SpecDecode  calls of the decoder entry points on reply frames;         *)
(*   SpecEncode  slew and sync calls with targets in and out of range;      *)
(*   SpecPair    two driver objects given the same status frames;           *)
(*   SpecPoll    the poll cycle and the arrival of the mount's replies;     *)
(*   SpecWorker  the worker's tick beside the host and setup threads;       *)
(*   SpecClose   the queue drain beside AlpacaDisConnect;                   *)
(*   SpecRace    the queue drain, statement by statement, beside intent     *)
(*               calls that enqueue;                                        *)
(*   SpecDrain   the queue drain with each send as an iOptron_SendCommand   *)
(*               request, byte by byte, under weak fairness.                *)
(* Strings are sequences of one-character strings.                         *)
(***************************************************************************)
EXTENDS Integers, Sequences, FiniteSets, TLC

\* ------------------------------------------------------------------------
\* Bounds of the model
\* ------------------------------------------------------------------------

\* maxBufferLen argument of iOptron_SendCommand (the callers pass 400).
maxBufferLen == 4

\* Number of slots of cCmdQueue (declared in the base class header).
QueueCapacity == 3

\* Intent calls that pass the connection check in one behaviour.
MaxIntents == 2

\* Successful opens of the transport in one behaviour.
MaxEpoch == 2

\* Decoder calls in one behaviour.
MaxFrames == 2

\* Requests SendCmdsPeriodic writes in one behaviour.
MaxRequests == 4

\* Intent calls and poll requests in one behaviour of SpecWorker.
MaxWorkerIntents == 1
MaxWorkerRequests == 2

\* ------------------------------------------------------------------------
\* Program constants
\* ------------------------------------------------------------------------

\* selectTimeout.tv_sec, seconds one select() call waits at most.
SelectTimeoutSec == 2

\* The sentinel terminator of the wire protocol.
Terminator == "#"

\* Bytes the mount may deliver in the byte-level machine.
FramerBytes == {"#", "1"}

\* Commands sent in the byte-level machine.
CmdGEP == <<":", "G", "E", "P", "#">>
CmdGLS == <<":", "G", "L", "S", "#">>

VARIABLES
    \* --- iOptron_SendCommand (byte-level machine) ---
    fPc,            \* "idle" | "write" | "read" | "done"
    fCmd,           \* cmdString
    bytesWritten,   \* result of write()
    returnBuffer,   \* bytes stored so far
    totalBytesRead, \* the function's counter and return value
    fConsumed,      \* bytes taken from the transport by read() in this request
    fWaited,        \* seconds spent in select() since the write
    fSelects,       \* number of select() calls of this request
    fExit,          \* why the read loop ended
    fLog            \* what the request logged about its write

framerVars == <<fPc, fCmd, bytesWritten, returnBuffer, totalBytesRead,
                fConsumed, fWaited, fSelects, fExit, fLog>>

\* ------------------------------------------------------------------------
\* iOptron_SendCommand, lines 1127-1209
\* ------------------------------------------------------------------------

FramerInit ==
    /\ fPc = "idle"
    /\ fCmd = <<>>
    /\ bytesWritten = 0
    /\ returnBuffer = <<>>
    /\ totalBytesRead = 0
    /\ fConsumed = <<>>
    /\ fWaited = 0
    /\ fSelects = 0
    /\ fExit = "none"
    /\ fLog = "none"

\* Entry: returnBuffer[0] = 0; totalBytesRead = 0 (lines 1139-1141).
FramerCall(cmd) ==
    /\ fPc = "idle"
    /\ fPc' = "write"
    /\ fCmd' = cmd
    /\ bytesWritten' = 0
    /\ returnBuffer' = <<>>
    /\ totalBytesRead' = 0
    /\ fConsumed' = <<>>
    /\ fWaited' = 0
    /\ fSelects' = 0
    /\ fExit' = "none"
    /\ fLog' = "none"

\* if (bytesWritten < 0) return(0), line 1145.
WriteIsFatal_ShortToo(bw, len) == bw # len
WriteIsFatal(bw, len) == bw < 0

\* if (bytesWritten != (int)strlen(cmdString)), line 1150.
WriteIsPartial(bw, len) == bw # len

\* write() returns -1, a short count or the full length (lines 1144-1156).
FramerWrite ==
    /\ fPc = "write"
    /\ \E bw \in {-1, Len(fCmd) - 1, Len(fCmd)} :
        /\ bytesWritten' = bw
        /\ IF WriteIsFatal(bw, Len(fCmd))
           THEN /\ fLog' = "write_error"
                /\ fExit' = "write_error"
                /\ fPc' = "done"
           ELSE /\ fLog' = IF WriteIsPartial(bw, Len(fCmd))
                             THEN "partial_write" ELSE "none"
                /\ fExit' = "none"
                /\ fPc' = "read"
    /\ UNCHANGED <<fCmd, returnBuffer, totalBytesRead, fConsumed, fWaited, fSelects>>

\* while (totalBytesRead < (maxBufferLen - 1)), line 1161.
ReadLoopGuard_Inclusive(n) == n <= maxBufferLen - 1
ReadLoopGuard(n) == n < maxBufferLen - 1

\* if (readChar == '#') break, line 1177.
BreakOnChar_Never(c) == FALSE
BreakOnChar(c) == c = Terminator

\* select() > 0 after w seconds and read() returns one byte (lines 1169-1181).
FramerReadByte ==
    /\ fPc = "read"
    /\ ReadLoopGuard(totalBytesRead)
    /\ \E w \in 0 .. (SelectTimeoutSec - 1), c \in FramerBytes :
        /\ fWaited' = fWaited + w
        /\ fConsumed' = Append(fConsumed, c)
        /\ returnBuffer' = Append(returnBuffer, c)
        /\ totalBytesRead' = totalBytesRead + 1
        /\ IF BreakOnChar(c)
           THEN fPc' = "done" /\ fExit' = "terminator"
           ELSE fPc' = "read" /\ fExit' = "none"
    /\ fSelects' = fSelects + 1
    /\ UNCHANGED <<fCmd, bytesWritten, fLog>>

\* select() > 0 and read() returns 0: peer closed (lines 1182-1186).
FramerReadEOF ==
    /\ fPc = "read"
    /\ ReadLoopGuard(totalBytesRead)
    /\ \E w \in 0 .. (SelectTimeoutSec - 1) : fWaited' = fWaited + w
    /\ fSelects' = fSelects + 1
    /\ fPc' = "done"
    /\ fExit' = "eof"
    /\ UNCHANGED <<fCmd, bytesWritten, returnBuffer, totalBytesRead, fConsumed, fLog>>

\* select() > 0 and read() returns -1 (lines 1187-1192).
FramerReadError ==
    /\ fPc = "read"
    /\ ReadLoopGuard(totalBytesRead)
    /\ \E w \in 0 .. (SelectTimeoutSec - 1) : fWaited' = fWaited + w
    /\ fSelects' = fSelects + 1
    /\ fPc' = "done"
    /\ fExit' = "read_error"
    /\ UNCHANGED <<fCmd, bytesWritten, returnBuffer, totalBytesRead, fConsumed, fLog>>

\* select() returns 0 after the whole selectTimeout (lines 1194-1198).
FramerSelectTimeout ==
    /\ fPc = "read"
    /\ ReadLoopGuard(totalBytesRead)
    /\ fWaited' = fWaited + SelectTimeoutSec
    /\ fSelects' = fSelects + 1
    /\ fPc' = "done"
    /\ fExit' = "timeout"
    /\ UNCHANGED <<fCmd, bytesWritten, returnBuffer, totalBytesRead, fConsumed, fLog>>

\* The loop condition fails: the buffer holds maxBufferLen-1 bytes (line 1161).
FramerBufferFull ==
    /\ fPc = "read"
    /\ ~ReadLoopGuard(totalBytesRead)
    /\ fPc' = "done"
    /\ fExit' = "full"
    /\ UNCHANGED <<fCmd, bytesWritten, returnBuffer, totalBytesRead, fConsumed,
                   fWaited, fSelects, fLog>>

\* return(totalBytesRead), line 1208; the caller may issue the next request.
FramerReturn ==
    /\ fPc = "done"
    /\ fPc' = "idle"
    /\ UNCHANGED <<fCmd, bytesWritten, returnBuffer, totalBytesRead, fConsumed,
                   fWaited, fSelects, fExit, fLog>>

\* ------------------------------------------------------------------------
\* The driver object (TelescopeDriveriOptron)
\* ------------------------------------------------------------------------

VARIABLES
    \* --- members of the driver object ---
    cDeviceConnType,          \* "Serial" | "Ethernet"
    cSocket_desc,             \* handle of the TCP socket, -1 when none
    cDeviceConnFileDesc,      \* handle of the serial device, -1 when none
    cTelescopeConnectionOpen,
    Connected,                \* cCommonProp.Connected
    cTelescopeInfoValid,
    cIOptron_CommErrCnt,
    cQueuedCmdCnt,
    cCmdQueue,                \* slots 0 .. QueueCapacity-1
    cSetupChangeOccured,
    Slewing,                  \* cTelescopeProp.Slewing
    Tracking,                 \* cTelescopeProp.Tracking
    AtPark,                   \* cTelescopeProp.AtPark
    TrackingRate,             \* cTelescopeProp.TrackingRate
    RightAscension,           \* cTelescopeProp.RightAscension, 0.01 arc-second
    Declination,              \* cTelescopeProp.Declination, 0.01 arc-second
    \* --- the host thread: one intent call at a time ---
    hPc,                      \* "idle" | "run"
    hOp,                      \* the intent being executed
    hBody,                    \* statements of the handler still to execute
    hResult,                  \* alpacaErrCode of the call
    hEpoch,                   \* connection epoch seen by the connection check
    hDropped,                 \* commands of this call the queue did not take
    \* --- the worker thread: SendCmdsFromQueue ---
    wPc,                      \* "idle" | "loop" | "send" | "shift"
    wFd,                      \* handle passed to iOptron_SendCommand
    \* --- disconnect / connect / setup ---
    cPc,                      \* "idle" | "close" | "clear"
    cThen,                    \* "return" | "reconnect" (Setup_SaveFinish)
    \* --- the transport and the history of the run ---
    openHandles,              \* handles open at the operating system
    connEpoch,                \* number of successful opens so far
    nextId,                   \* commands admitted to the queue so far
    nIntents,                 \* intent calls that passed the connection check
    sent,                     \* commands written to the transport, in order
    aborted,                  \* ids removed unsent by Telescope_AbortSlew
    dropped                   \* ids removed unsent by AlpacaDisConnect

driverVars == <<cDeviceConnType, cSocket_desc, cDeviceConnFileDesc,
                cTelescopeConnectionOpen, Connected, cTelescopeInfoValid,
                cIOptron_CommErrCnt, cQueuedCmdCnt, cCmdQueue,
                cSetupChangeOccured, Slewing, Tracking, AtPark, TrackingRate,
                RightAscension, Declination,
                hPc, hOp, hBody, hResult, hEpoch, hDropped,
                wPc, wFd, cPc, cThen,
                openHandles, connEpoch, nextId, nIntents, sent,
                aborted, dropped>>

connVars == <<cDeviceConnType, cSocket_desc, cDeviceConnFileDesc,
              cTelescopeConnectionOpen, Connected, cSetupChangeOccured,
              openHandles, connEpoch>>
flagVars == <<Slewing, Tracking, AtPark, TrackingRate>>
posVars == <<RightAscension, Declination>>
hostVars == <<hPc, hOp, hBody, hResult, hEpoch, hDropped, nIntents>>
workerVars == <<wPc, wFd>>
ctlVars == <<cPc, cThen>>

\* --- the decoders' own state and the record of the last decoder call ---
VARIABLES
    cTelescopeRA_String,      \* raw frame kept by Process_RA_Response
    cTelescopeDEC_String,     \* raw frame kept by Process_DEC/GEP_Response
    cTelescopeStatus_String,  \* raw frame kept by Process_GLS_Response
    dEntry,                   \* decoder entry point last called
    dFrame,                   \* frame it was given
    dRet,                     \* value it returned
    dRead,                    \* offsets of dataBuffer it read
    nFrames                   \* decoder calls so far

decodeVars == <<cTelescopeRA_String, cTelescopeDEC_String,
                cTelescopeStatus_String, dEntry, dFrame, dRet, dRead, nFrames>>

\* --- a second driver object receiving the same status frames ---
VARIABLES
    Slewing2, Tracking2, AtPark2,   \* its flags
    pSame                     \* the last step gave both objects one frame

pairVars == <<Slewing2, Tracking2, AtPark2, pSame>>

\* --- the poll cycle and the byte stream between driver and mount ---
VARIABLES
    pPc,                      \* position in SendCmdsPeriodic
    pReq,                     \* requests written so far; the current one
    pFrom,                    \* request that the frame last decoded answered
    mountPending,             \* replies the mount has not yet sent
    rxBuffer,                 \* replies sent and not yet read by the driver
    pSent,                    \* commands SendCmdsPeriodic handed to write()
    pGood,                    \* a position frame was decoded since the last disconnect
    pDisc                     \* AlpacaDisConnect has been called and returned

pollVars == <<pPc, pReq, pFrom, mountPending, rxBuffer, pSent, pGood, pDisc>>

\* Everything but the driver object, everything but the framer.
nonDriverVars == <<framerVars, decodeVars, pairVars, pollVars>>
nonDrainVars == <<framerVars, cTelescopeStatus_String, dEntry, dFrame, dRet,
                  dRead, nFrames, pairVars, pollVars>>
nonFramerVars == <<driverVars, decodeVars, pairVars, pollVars>>

vars == <<framerVars, driverVars, decodeVars, pairVars, pollVars>>

\* ------------------------------------------------------------------------
\* Strings
\* ------------------------------------------------------------------------

DigitChars == <<"0", "1", "2", "3", "4", "5", "6", "7", "8", "9">>

IsDigit(c) == \E d \in 1 .. 10 : DigitChars[d] = c

DigitValue(c) == (CHOOSE d \in 1 .. 10 : DigitChars[d] = c) - 1

\* The character at 1-based position i of a C string: NUL at and past the end.
CharAt(buf, i) == IF i >= 1 /\ i <= Len(buf) THEN buf[i] ELSE "NUL"

\* The digits sprintf prints for %lld: a minus sign before those of a
\* negative number.
RECURSIVE Digits(_)
Digits(n) == IF n < 0 THEN <<"-">> \o Digits(-n)
             ELSE IF n < 10 THEN <<DigitChars[n + 1]>>
             ELSE Digits(n \div 10) \o <<DigitChars[(n % 10) + 1]>>

\* The zero flag of %09lld and %08lld: zeros go between the sign and the
\* digits until the field has the width.
ZeroPad_None(str, width) == str
RECURSIVE ZeroPad(_, _)
ZeroPad(str, width) == IF Len(str) >= width THEN str
                       ELSE IF Head(str) = "-"
                       THEN <<"-">> \o ZeroPad(Tail(str), width - 1)
                       ELSE ZeroPad(<<"0">> \o str, width)

\* ------------------------------------------------------------------------
\* Wire commands
\* ------------------------------------------------------------------------

CmdQ   == <<":", "Q", "#">>
CmdMH  == <<":", "M", "H", "#">>
Cmdmw  == <<":", "m", "w", "#">>
Cmdme  == <<":", "m", "e", "#">>
CmdqR  == <<":", "q", "R", "#">>
Cmdms  == <<":", "m", "s", "#">>
Cmdmn  == <<":", "m", "n", "#">>
CmdqD  == <<":", "q", "D", "#">>
CmdMP1 == <<":", "M", "P", "1", "#">>
CmdMP0 == <<":", "M", "P", "0", "#">>
CmdSZP == <<":", "S", "Z", "P", "#">>
CmdMS1 == <<":", "M", "S", "1", "#">>
CmdCM  == <<":", "C", "M", "#">>
CmdST1 == <<":", "S", "T", "1", "#">>
CmdST0 == <<":", "S", "T", "0", "#">>
CmdRT(n) == <<":", "R", "T", DigitChars[n + 1], "#">>

\* kAxis_RA, kAxis_DEC
kAxis_RA == 0
kAxis_DEC == 1

\* TYPE_DriveRates
DriveRates == {"Sidereal", "Lunar", "Solar", "King"}

\* ------------------------------------------------------------------------
\* The command queue
\* ------------------------------------------------------------------------

Slots == 0 .. (QueueCapacity - 1)

\* A slot never written: an empty command string.
NoCmd == [cmd |-> <<>>, id |-> 0, ep |-> 0, lost |-> 0]

\* What a read one slot past the end of cCmdQueue may yield.
OutOfBoundsEntries ==
    {NoCmd, [cmd |-> <<"?">>, id |-> 0, ep |-> 0, lost |-> 0]}

\* The valid part of the queue, head first.
QueueSeq == [i \in 1 .. (IF cQueuedCmdCnt > 0 THEN cQueuedCmdCnt ELSE 0) |->
                cCmdQueue[i - 1]]

QueueIds == {cCmdQueue[i].id : i \in {j \in Slots : j < cQueuedCmdCnt}}

\* AddCmdToQueue of the base class: the command is stored at the tail when
\* the connection is open and a slot is free, and is not stored otherwise.
AddCmdAdmits(cnt, open) == open /\ cnt >= 0 /\ cnt < QueueCapacity

\* The queue after AddCmdToQueue stored entry e at the tail.
AddCmdToQueue(q, cnt, e) == [q EXCEPT ![cnt] = e]

\* ------------------------------------------------------------------------
\* Intent calls: the statements each handler executes after its connection
\* check, in program order
\* ------------------------------------------------------------------------

Enq(c)        == [k |-> "enq",   cmd |-> c,    v |-> FALSE]
ClearQueue    == [k |-> "clear", cmd |-> <<>>, v |-> FALSE]
SetSlewing(b) == [k |-> "slew",  cmd |-> <<>>, v |-> b]
SetTracking(b) == [k |-> "track", cmd |-> <<>>, v |-> b]
SetAtPark(b)  == [k |-> "park",  cmd |-> <<>>, v |-> b]
SetRate(r)    == [k |-> "rate",  cmd |-> <<>>, v |-> r]

\* if (!cCommonProp.Connected || !cTelescopeConnectionOpen), line 482 and the
\* same test at the head of every intent call.
NotConnected_OnlyFlag(conn, open) == ~conn
NotConnectedCheck(conn, open) == ~conn \/ ~open

Telescope_AbortSlew_NoClear == <<Enq(CmdQ), SetSlewing(FALSE)>>
Telescope_AbortSlew == <<ClearQueue, Enq(CmdQ), SetSlewing(FALSE)>>

Telescope_FindHome == <<Enq(CmdMH), SetSlewing(TRUE)>>

\* moveRate_degPerSec is represented by its sign.
Telescope_MoveAxis(axisNum, rate) ==
    IF axisNum = kAxis_RA
    THEN <<SetSlewing(rate # 0)>> \o
         (IF rate > 0 THEN <<Enq(Cmdmw)>>
          ELSE IF rate < 0 THEN <<Enq(Cmdme)>>
          ELSE <<Enq(CmdqR), SetSlewing(FALSE)>>)
    ELSE IF axisNum = kAxis_DEC
    THEN <<SetSlewing(rate # 0)>> \o
         (IF rate > 0 THEN <<Enq(Cmdms)>>
          ELSE IF rate < 0 THEN <<Enq(Cmdmn)>>
          ELSE <<Enq(CmdqD), SetSlewing(FALSE)>>)
    ELSE <<>>

Telescope_Park == <<Enq(CmdMP1), SetAtPark(TRUE), SetSlewing(TRUE)>>

Telescope_SetPark == <<Enq(CmdSZP)>>

Clamp_None(x, lo, hi) == x
Clamp(x, lo, hi) == IF x < lo THEN lo ELSE IF x > hi THEN hi ELSE x

\* Coordinates are passed in thousandths of an hour and of a degree, so that
\* hours * 15 * 3600 * 100 is raMilliHours * 5400 and degrees * 3600 * 100 is
\* decMilliDeg * 360, both whole numbers.
RA_arcsec_01(raMilliHours) == Clamp(raMilliHours * 5400, 0, 129600000)

DEC_arcsec_01(decMilliDeg) == Clamp(decMilliDeg * 360, -32400000, 32400000)

CmdSRA(raMilliHours) ==
    <<":", "S", "R", "A">> \o ZeroPad(Digits(RA_arcsec_01(raMilliHours)), 9) \o <<"#">>

CmdSds(decMilliDeg) ==
    LET d == DEC_arcsec_01(decMilliDeg) IN
    IF d >= 0
    THEN <<":", "S", "d", "s", "+">> \o ZeroPad(Digits(d), 8) \o <<"#">>
    ELSE <<":", "S", "d", "s", "-">> \o ZeroPad(Digits(-d), 8) \o <<"#">>

Telescope_SlewToRA_DEC(ra, dec) ==
    <<Enq(CmdSRA(ra)), Enq(CmdSds(dec)), Enq(CmdMS1), SetSlewing(TRUE)>>

Telescope_SyncToRA_DEC(ra, dec) ==
    <<Enq(CmdSRA(ra)), Enq(CmdSds(dec)), Enq(CmdCM)>>

Telescope_TrackingOnOff(newTrackingState) ==
    IF newTrackingState
    THEN <<Enq(CmdST1), SetTracking(TRUE)>>
    ELSE <<Enq(CmdST0), SetTracking(FALSE)>>

RateCode(r) == CASE r = "Sidereal" -> 0 [] r = "Lunar" -> 1
                 [] r = "Solar" -> 2 [] r = "King" -> 3

Telescope_TrackingRate(newTrackingRate) ==
    IF newTrackingRate \in DriveRates
    THEN <<Enq(CmdRT(RateCode(newTrackingRate))), SetRate(newTrackingRate)>>
    ELSE <<>>

Telescope_UnPark == <<Enq(CmdMP0), SetAtPark(FALSE)>>

\* The intent calls the host makes, with their arguments.
SlewTargets == {[ra |-> 12500, dec |-> -33250]}

Intents ==
    {[name |-> "AbortSlew", a |-> 0, b |-> 0],
     [name |-> "FindHome", a |-> 0, b |-> 0],
     [name |-> "Park", a |-> 0, b |-> 0],
     [name |-> "SetPark", a |-> 0, b |-> 0],
     [name |-> "UnPark", a |-> 0, b |-> 0]}
    \cup {[name |-> "MoveAxis", a |-> 0, b |-> 1],
          [name |-> "MoveAxis", a |-> 1, b |-> 0],
          [name |-> "MoveAxis", a |-> 2, b |-> -1]}
    \cup {[name |-> "SlewToRA_DEC", a |-> t.ra, b |-> t.dec] : t \in SlewTargets}
    \cup {[name |-> "SyncToRA_DEC", a |-> t.ra, b |-> t.dec] : t \in SlewTargets}
    \cup {[name |-> "TrackingOnOff", a |-> x, b |-> 0] : x \in {0, 1}}
    \cup {[name |-> "TrackingRate", a |-> r, b |-> 0] : r \in {1, 4}}

RateOfArg(n) == CASE n = 0 -> "Sidereal" [] n = 1 -> "Lunar" [] n = 2 -> "Solar"
                  [] n = 3 -> "King" [] OTHER -> "Invalid"

\* The statements of intent op after its connection check.
IntentBody(op) ==
    CASE op.name = "AbortSlew"     -> Telescope_AbortSlew
      [] op.name = "FindHome"      -> Telescope_FindHome
      [] op.name = "MoveAxis"      -> Telescope_MoveAxis(op.a, op.b)
      [] op.name = "Park"          -> Telescope_Park
      [] op.name = "SetPark"       -> Telescope_SetPark
      [] op.name = "SlewToRA_DEC"  -> Telescope_SlewToRA_DEC(op.a, op.b)
      [] op.name = "SyncToRA_DEC"  -> Telescope_SyncToRA_DEC(op.a, op.b)
      [] op.name = "TrackingOnOff" -> Telescope_TrackingOnOff(op.a = 1)
      [] op.name = "TrackingRate"  -> Telescope_TrackingRate(RateOfArg(op.a))
      [] op.name = "UnPark"        -> Telescope_UnPark

\* alpacaErrCode of a call that passed the connection check.
IntentStatus(op) ==
    IF op.name = "MoveAxis" /\ op.a \notin {kAxis_RA, kAxis_DEC} THEN "InvalidValue"
    ELSE IF op.name = "TrackingRate" /\ RateOfArg(op.a) \notin DriveRates THEN "InvalidValue"
    ELSE "Success"

statVars == <<cTelescopeInfoValid, cIOptron_CommErrCnt>>
queueVars == <<cQueuedCmdCnt, cCmdQueue>>
histVars == <<nextId, sent, aborted, dropped>>

\* ------------------------------------------------------------------------
\* Response decoder used by the queue drain
\* ------------------------------------------------------------------------

\* CheckForValidResponse, lines 1214-1230.
CheckForValidResponse_NonEmpty(buf) == Len(buf) > 0
CheckForValidResponse(buf) == Len(buf) > 0 /\ buf[Len(buf)] = Terminator

\* strchr(dataBuffer, c) != NULL
StrChr(buf, c) == \E i \in 1 .. Len(buf) : buf[i] = c

\* while (isdigit(*charPtr)) charPtr++
RECURSIVE SkipDigits(_, _)
SkipDigits(buf, p) == IF IsDigit(CharAt(buf, p)) THEN SkipDigits(buf, p + 1) ELSE p

RECURSIVE AtoiDigits(_, _, _)
AtoiDigits(buf, p, acc) ==
    IF IsDigit(CharAt(buf, p))
    THEN AtoiDigits(buf, p + 1, acc * 10 + DigitValue(CharAt(buf, p)))
    ELSE acc

\* atoi(): leading blanks, an optional sign, then the leading decimal digits.
RECURSIVE Atoi(_, _)
Atoi(buf, p) ==
    IF CharAt(buf, p) = " " THEN Atoi(buf, p + 1)
    ELSE IF CharAt(buf, p) = "-" THEN -AtoiDigits(buf, p + 1, 0)
    ELSE IF CharAt(buf, p) = "+" THEN AtoiDigits(buf, p + 1, 0)
    ELSE AtoiDigits(buf, p, 0)

\* while (hours_Dbl >= 24.0) hours_Dbl -= 24.0; while (hours_Dbl < 0.0) ...
\* on a value in seconds of time.
RECURSIVE Normalize24(_)
Normalize24(sec) == IF sec >= 24 * 3600 THEN Normalize24(sec - 24 * 3600)
                    ELSE IF sec < 0 THEN Normalize24(sec + 24 * 3600)
                    ELSE sec

\* iOptron_ParseRA, lines 1235-1285; the result in seconds of time.
iOptron_ParseRA(buf) ==
    IF ~CheckForValidResponse(buf) THEN 0
    ELSE LET hours   == Atoi(buf, 1)
             p1      == SkipDigits(buf, 1)
             hasMin  == CharAt(buf, p1) = ":"
             minutes == IF hasMin THEN Atoi(buf, p1 + 1) ELSE 0
             p2      == SkipDigits(buf, p1 + 1)
             hasSec  == hasMin /\ CharAt(buf, p2) = ":"
             seconds == IF hasSec THEN Atoi(buf, p2 + 1) ELSE 0
         IN  Normalize24(hours * 3600 + minutes * 60 + seconds)

\* iOptron_ParseDegMinSec, lines 1290-1344; the result in arc-seconds.
iOptron_ParseDegMinSec(buf) ==
    IF ~CheckForValidResponse(buf) THEN 0
    ELSE LET signed    == CharAt(buf, 1) \in {"+", "-"}
             plusMinus == IF CharAt(buf, 1) = "-" THEN -1 ELSE 1
             p0        == IF signed THEN 2 ELSE 1
             degrees   == Atoi(buf, p0)
             p1        == SkipDigits(buf, p0)
             hasMin    == CharAt(buf, p1) = "*"
             minutes   == IF hasMin THEN Atoi(buf, p1 + 1) ELSE 0
             p2        == SkipDigits(buf, p1 + 1)
             hasSec    == hasMin /\ CharAt(buf, p2) = ":"
             seconds   == IF hasSec THEN Atoi(buf, p2 + 1) ELSE 0
         IN  plusMinus * (degrees * 3600 + minutes * 60 + seconds)

\* Process_RA_Response, lines 900-922: the new right ascension.
Process_RA_Response(buf, ra) ==
    LET sec == iOptron_ParseRA(buf) IN
    IF CheckForValidResponse(buf) /\ sec >= 0 /\ sec < 24 * 3600
    THEN sec * 15 * 100 ELSE ra

\* Process_DEC_Response, lines 927-946: the new declination.
Process_DEC_Response(buf, dec) ==
    LET arcsec == iOptron_ParseDegMinSec(buf) IN
    IF CheckForValidResponse(buf) /\ arcsec >= -90 * 3600 /\ arcsec <= 90 * 3600
    THEN arcsec * 100 ELSE dec

\* sizeof of cTelescopeRA_String and cTelescopeDEC_String as the decoders
\* test it (lines 912, 936, 1019).
RawStringCap == 32

\* strcpy(cTelescopeRA_String, dataBuffer), lines 912-917, and
\* strcpy(cTelescopeDEC_String, dataBuffer), lines 936-941.
Process_RA_String(buf, old) ==
    LET sec == iOptron_ParseRA(buf) IN
    IF CheckForValidResponse(buf) /\ sec >= 0 /\ sec < 24 * 3600
       /\ Len(buf) < RawStringCap
    THEN buf ELSE old

Process_DEC_String(buf, old) ==
    LET arcsec == iOptron_ParseDegMinSec(buf) IN
    IF CheckForValidResponse(buf) /\ arcsec >= -90 * 3600 /\ arcsec <= 90 * 3600
       /\ Len(buf) < RawStringCap
    THEN buf ELSE old

\* Process_iOptronResponse, lines 871-895: the new raw strings
\* (cTelescopeRA_String, cTelescopeDEC_String).
Process_iOptronStrings(buf, raStr, decStr) ==
    IF CheckForValidResponse(buf) /\ CharAt(buf, 1) \in {"+", "-"}
    THEN IF StrChr(buf, ":") THEN <<Process_RA_String(buf, raStr), decStr>>
         ELSE IF StrChr(buf, "*") THEN <<raStr, Process_DEC_String(buf, decStr)>>
         ELSE <<raStr, decStr>>
    ELSE <<raStr, decStr>>

\* Process_iOptronResponse, lines 871-895: the new (RightAscension, Declination).
Process_iOptronResponse(buf, ra, dec) ==
    IF CheckForValidResponse(buf) /\ CharAt(buf, 1) \in {"+", "-"}
    THEN IF StrChr(buf, ":") THEN <<Process_RA_Response(buf, ra), dec>>
         ELSE IF StrChr(buf, "*") THEN <<ra, Process_DEC_Response(buf, dec)>>
         ELSE <<ra, dec>>
    ELSE <<ra, dec>>

\* Replies iOptron_SendCommand may hand to the drain: nothing, an
\* unterminated byte, an acknowledge and a coordinate frame.
DrainReplies ==
    {<<>>,
     <<"1">>,
     <<"1", "#">>,
     <<"+", "1", "2", ":", "3", "0", ":", "0", "0", "#">>}

\* ------------------------------------------------------------------------
\* Host thread: intent calls
\* ------------------------------------------------------------------------

\* A call that fails its connection check returns at once; the others
\* go on to execute their statements.
IntentCall(op) ==
    /\ hPc = "idle"
    /\ IF NotConnectedCheck(Connected, cTelescopeConnectionOpen)
       THEN /\ hResult' = "NotConnected"
            /\ hPc' = "idle"
            /\ UNCHANGED <<hOp, hBody, hEpoch, hDropped, nIntents>>
       ELSE /\ nIntents < MaxIntents
            /\ hOp' = op
            /\ hDropped' = 0
            /\ hResult' = IntentStatus(op)
            /\ hPc' = "run"
            /\ hBody' = IntentBody(op)
            /\ hEpoch' = connEpoch
            /\ nIntents' = nIntents + 1
    /\ UNCHANGED <<connVars, statVars, queueVars, flagVars, posVars,
                   workerVars, ctlVars, histVars>>

\* One statement of the running handler.  AddCmdToQueue stores the command
\* at slot cQueuedCmdCnt and increments the count.
IntentStep ==
    /\ hPc = "run"
    /\ hBody # <<>>
    /\ LET s == Head(hBody) IN
        /\ hBody' = Tail(hBody)
        /\ IF s.k = "enq" /\ AddCmdAdmits(cQueuedCmdCnt, cTelescopeConnectionOpen)
           THEN /\ cCmdQueue' =
                      AddCmdToQueue(cCmdQueue, cQueuedCmdCnt,
                          [cmd |-> s.cmd, id |-> nextId + 1, ep |-> hEpoch,
                           lost |-> hDropped])
                /\ cQueuedCmdCnt' = cQueuedCmdCnt + 1
                /\ nextId' = nextId + 1
                /\ UNCHANGED <<hDropped, aborted>>
           ELSE IF s.k = "enq"
           THEN /\ hDropped' = hDropped + 1
                /\ UNCHANGED <<queueVars, nextId, aborted>>
           ELSE IF s.k = "clear"
           THEN /\ cQueuedCmdCnt' = 0
                /\ aborted' = aborted \cup QueueIds
                /\ UNCHANGED <<cCmdQueue, nextId, hDropped>>
           ELSE UNCHANGED <<queueVars, nextId, hDropped, aborted>>
        /\ Slewing'      = IF s.k = "slew"  THEN s.v ELSE Slewing
        /\ Tracking'     = IF s.k = "track" THEN s.v ELSE Tracking
        /\ AtPark'       = IF s.k = "park"  THEN s.v ELSE AtPark
        /\ TrackingRate' = IF s.k = "rate"  THEN s.v ELSE TrackingRate
    /\ UNCHANGED <<connVars, statVars, posVars, hPc, hOp, hResult, hEpoch,
                   nIntents, workerVars, ctlVars, sent, dropped>>

NoIntent == [name |-> "none", a |-> 0, b |-> 0]

\* return(alpacaErrCode): the call's locals go out of scope.
IntentReturn ==
    /\ hPc = "run"
    /\ hBody = <<>>
    /\ hPc' = "idle"
    /\ hOp' = NoIntent
    /\ hResult' = "none"
    /\ hDropped' = 0
    /\ hEpoch' = 0
    /\ UNCHANGED <<connVars, statVars, queueVars, flagVars, posVars,
                   hBody, nIntents, workerVars, ctlVars, histVars>>

\* ------------------------------------------------------------------------
\* Worker thread: SendCmdsFromQueue, lines 319-378
\* ------------------------------------------------------------------------

\* if (!cTelescopeConnectionOpen) return(false), line 328.
DrainCall ==
    /\ wPc = "idle"
    /\ IF ~cTelescopeConnectionOpen
       THEN wPc' = "idle"
       ELSE wPc' = "loop"
    /\ UNCHANGED <<connVars, statVars, queueVars, flagVars, posVars,
                   hostVars, wFd, ctlVars, histVars>>

\* The handle of the configured connection type and its validity test
\* (lines 336-355).
HandleOfType == IF cDeviceConnType = "Ethernet" THEN cSocket_desc
                ELSE cDeviceConnFileDesc

HandleValid == IF cDeviceConnType = "Ethernet" THEN cSocket_desc > 0
               ELSE cDeviceConnFileDesc >= 0

\* while (cQueuedCmdCnt > 0), line 333, and the handle test of the iteration.
\* The function returns true when the loop ends (line 377) and false when the
\* handle is not valid (lines 341, 354).
DrainLoop ==
    /\ wPc = "loop"
    /\ IF cQueuedCmdCnt > 0
       THEN IF HandleValid
            THEN /\ wFd' = HandleOfType
                 /\ wPc' = "send"
            ELSE /\ wPc' = "idle"
                 /\ UNCHANGED wFd
       ELSE /\ wPc' = "idle"
            /\ UNCHANGED wFd
    /\ UNCHANGED <<connVars, statVars, queueVars, flagVars, posVars,
                   hostVars, ctlVars, histVars>>

\* The slot whose cmdString is passed to iOptron_SendCommand (lines 344, 357).
SendIndex_Last(cnt) == cnt - 1
SendIndex(cnt) == 0

\* iOptron_SendCommand on cCmdQueue[0] and, for a non-empty reply,
\* Process_iOptronResponse (lines 343-365).  The command reaches the
\* transport when the handle is open; on a closed handle the write fails and
\* iOptron_SendCommand returns 0, as it does when no reply byte arrives.
DrainSendReply(reply) ==
    /\ wPc = "send"
    /\ LET e == cCmdQueue[SendIndex(cQueuedCmdCnt)] IN
        /\ sent' = IF wFd \in openHandles
                   THEN Append(sent, [id |-> e.id, cep |-> e.ep, sep |-> wFd])
                   ELSE sent
        /\ LET pos == IF Len(reply) > 0
                      THEN Process_iOptronResponse(reply, RightAscension, Declination)
                      ELSE <<RightAscension, Declination>>
               str == IF Len(reply) > 0
                      THEN Process_iOptronStrings(reply, cTelescopeRA_String,
                                                  cTelescopeDEC_String)
                      ELSE <<cTelescopeRA_String, cTelescopeDEC_String>>
           IN  /\ RightAscension' = pos[1]
               /\ Declination' = pos[2]
               /\ cTelescopeRA_String' = str[1]
               /\ cTelescopeDEC_String' = str[2]
    /\ wPc' = "shift"
    /\ UNCHANGED <<connVars, statVars, queueVars, flagVars, hostVars,
                   wFd, ctlVars, nextId, aborted, dropped>>

DrainSend ==
    \E reply \in (IF wFd \in openHandles THEN DrainReplies ELSE {<<>>}) :
        DrainSendReply(reply)

\* for (iii=0; iii<cQueuedCmdCnt; iii++) cCmdQueue[iii] = cCmdQueue[iii + 1];
\* (lines 367-370).  oob is what the read of slot QueueCapacity yields.
ShiftQueue_NoShift(q, cnt, oob) == q
ShiftQueue(q, cnt, oob) ==
    [i \in Slots |-> IF i < cnt
                     THEN (IF i + 1 \in Slots THEN q[i + 1] ELSE oob)
                     ELSE q[i]]

\* The shift and cQueuedCmdCnt-- (lines 366-375).
DrainShift ==
    /\ wPc = "shift"
    /\ \E oob \in (IF cQueuedCmdCnt >= QueueCapacity THEN OutOfBoundsEntries
                   ELSE {NoCmd}) :
         cCmdQueue' = ShiftQueue(cCmdQueue, cQueuedCmdCnt, oob)
    /\ cQueuedCmdCnt' = cQueuedCmdCnt - 1
    /\ wPc' = "loop"
    /\ UNCHANGED <<connVars, statVars, flagVars, posVars, hostVars,
                   wFd, ctlVars, histVars>>

\* The same two statements as steps of their own: the for loop of lines
\* 367-370, then cQueuedCmdCnt-- (line 371).
DrainShiftLoop ==
    /\ wPc = "shift"
    /\ \E oob \in (IF cQueuedCmdCnt >= QueueCapacity THEN OutOfBoundsEntries
                   ELSE {NoCmd}) :
         cCmdQueue' = ShiftQueue(cCmdQueue, cQueuedCmdCnt, oob)
    /\ wPc' = "dec"
    /\ UNCHANGED <<connVars, statVars, cQueuedCmdCnt, flagVars, posVars,
                   hostVars, wFd, ctlVars, histVars>>

DrainDecrement ==
    /\ wPc = "dec"
    /\ cQueuedCmdCnt' = cQueuedCmdCnt - 1
    /\ wPc' = "loop"
    /\ UNCHANGED <<connVars, statVars, cCmdQueue, flagVars, posVars,
                   hostVars, wFd, ctlVars, histVars>>

\* ------------------------------------------------------------------------
\* Disconnect, connect and setup
\* ------------------------------------------------------------------------

\* The switch of AlpacaDisConnect (lines 264-298): the handle of the
\* configured connection type is closed and invalidated.
CloseHandleOfType_Skipped ==
    UNCHANGED <<openHandles, cSocket_desc, cDeviceConnFileDesc>>
CloseHandleOfType ==
    IF cDeviceConnType = "Ethernet"
    THEN IF cSocket_desc > 0
         THEN /\ openHandles' = openHandles \ {cSocket_desc}
              /\ cSocket_desc' = -1
              /\ UNCHANGED cDeviceConnFileDesc
         ELSE UNCHANGED <<openHandles, cSocket_desc, cDeviceConnFileDesc>>
    ELSE IF cDeviceConnFileDesc >= 0
         THEN /\ openHandles' = openHandles \ {cDeviceConnFileDesc}
              /\ cDeviceConnFileDesc' = -1
              /\ UNCHANGED cSocket_desc
         ELSE UNCHANGED <<openHandles, cSocket_desc, cDeviceConnFileDesc>>

\* AlpacaDisConnect up to the end of the switch (lines 253-298).
AlpacaDisConnect_Close ==
    /\ cPc = "idle"
    /\ CloseHandleOfType
    /\ cPc' = "clear"
    /\ cThen' = "return"
    /\ UNCHANGED <<cDeviceConnType, cTelescopeConnectionOpen, Connected,
                   cSetupChangeOccured, connEpoch, statVars, queueVars,
                   flagVars, posVars, hostVars, workerVars, histVars>>

\* cQueuedCmdCnt = 0, line 304.
QueueCountAfterDisconnect_Keep(cnt) == cnt
QueueCountAfterDisconnect(cnt) == 0

\* AlpacaDisConnect, "Update connection state" (lines 300-307).
AlpacaDisConnect_Clear ==
    /\ cPc = "clear"
    /\ cTelescopeConnectionOpen' = FALSE
    /\ Connected' = FALSE
    /\ cTelescopeInfoValid' = FALSE
    /\ cQueuedCmdCnt' = QueueCountAfterDisconnect(cQueuedCmdCnt)
    /\ dropped' = dropped \cup QueueIds
    /\ cIOptron_CommErrCnt' = 0
    /\ cPc' = IF cThen = "return" THEN "idle" ELSE "reconnect"
    /\ UNCHANGED <<cDeviceConnType, cSocket_desc, cDeviceConnFileDesc,
                   cSetupChangeOccured, openHandles, connEpoch, cCmdQueue,
                   flagVars, posVars, hostVars, workerVars, cThen,
                   nextId, sent, aborted>>

\* AlpacaConnect of the base class: the connection is requested
\* (Connected) and the transport of the configured type is opened, which
\* may fail.
OpenTransport ==
    /\ Connected' = TRUE
    /\ \/ /\ connEpoch < MaxEpoch
          /\ connEpoch' = connEpoch + 1
          /\ openHandles' = openHandles \cup {connEpoch + 1}
          /\ cTelescopeConnectionOpen' = TRUE
          /\ IF cDeviceConnType = "Ethernet"
             THEN cSocket_desc' = connEpoch + 1 /\ UNCHANGED cDeviceConnFileDesc
             ELSE cDeviceConnFileDesc' = connEpoch + 1 /\ UNCHANGED cSocket_desc
       \/ /\ cTelescopeConnectionOpen' = FALSE
          /\ UNCHANGED <<connEpoch, openHandles, cSocket_desc, cDeviceConnFileDesc>>

AlpacaConnect ==
    /\ cPc = "idle"
    /\ ~cTelescopeConnectionOpen
    /\ OpenTransport
    /\ UNCHANGED <<cDeviceConnType, cSetupChangeOccured, statVars, queueVars,
                   flagVars, posVars, hostVars, workerVars, ctlVars, histVars>>

\* Setup_SaveInit, lines 1569-1573.
Setup_SaveInit ==
    /\ cPc = "idle"
    /\ cSetupChangeOccured' = FALSE
    /\ UNCHANGED <<cDeviceConnType, cSocket_desc, cDeviceConnFileDesc,
                   cTelescopeConnectionOpen, Connected, openHandles, connEpoch,
                   statVars, queueVars, flagVars, posVars, hostVars,
                   workerVars, ctlVars, histVars>>

\* Setup_ProcessKeyword("conntype", value), lines 1615-1634.
Setup_ProcessKeyword_conntype(value) ==
    /\ cPc = "idle"
    /\ IF value = "serial" /\ cDeviceConnType # "Serial"
       THEN cDeviceConnType' = "Serial" /\ cSetupChangeOccured' = TRUE
       ELSE IF value = "ethernet" /\ cDeviceConnType # "Ethernet"
       THEN cDeviceConnType' = "Ethernet" /\ cSetupChangeOccured' = TRUE
       ELSE UNCHANGED <<cDeviceConnType, cSetupChangeOccured>>
    /\ UNCHANGED <<cSocket_desc, cDeviceConnFileDesc, cTelescopeConnectionOpen,
                   Connected, openHandles, connEpoch, statVars, queueVars,
                   flagVars, posVars, hostVars, workerVars, ctlVars, histVars>>

\* Setup_SaveFinish, lines 1578-1606: with a change pending, AlpacaDisConnect
\* and then AlpacaConnect.
Setup_SaveFinish_Disconnect ==
    /\ cPc = "idle"
    /\ cSetupChangeOccured
    /\ CloseHandleOfType
    /\ cPc' = "clear"
    /\ cThen' = "reconnect"
    /\ UNCHANGED <<cDeviceConnType, cTelescopeConnectionOpen, Connected,
                   cSetupChangeOccured, connEpoch, statVars, queueVars,
                   flagVars, posVars, hostVars, workerVars, histVars>>

Setup_SaveFinish_Reconnect ==
    /\ cPc = "reconnect"
    /\ OpenTransport
    /\ cSetupChangeOccured' = FALSE
    /\ cPc' = "idle"
    /\ cThen' = "return"
    /\ UNCHANGED <<cDeviceConnType, statVars, queueVars, flagVars, posVars,
                   hostVars, workerVars, histVars>>

\* ------------------------------------------------------------------------
\* Initial state: the object as its constructor leaves it (lines 176-239),
\* the connection type taken from the configuration file, AlpacaConnect
\* called at the end.
\* ------------------------------------------------------------------------

DriverInit ==
    /\ cDeviceConnType \in {"Serial", "Ethernet"}
    /\ \E ok \in BOOLEAN :
        /\ cTelescopeConnectionOpen = ok
        /\ connEpoch = IF ok THEN 1 ELSE 0
        /\ openHandles = IF ok THEN {1} ELSE {}
        /\ cSocket_desc = IF ok /\ cDeviceConnType = "Ethernet" THEN 1 ELSE -1
        /\ cDeviceConnFileDesc = IF ok /\ cDeviceConnType = "Serial" THEN 1 ELSE -1
    /\ Connected = TRUE
    /\ cTelescopeInfoValid = FALSE
    /\ cIOptron_CommErrCnt = 0
    /\ cQueuedCmdCnt = 0
    /\ cCmdQueue = [i \in Slots |-> NoCmd]
    /\ cSetupChangeOccured = FALSE
    /\ Slewing = FALSE
    /\ Tracking = FALSE
    /\ AtPark = FALSE
    /\ TrackingRate = "Sidereal"
    /\ RightAscension = 0
    /\ Declination = 0
    /\ hPc = "idle"
    /\ hOp = NoIntent
    /\ hBody = <<>>
    /\ hResult = "none"
    /\ hEpoch = 0
    /\ hDropped = 0
    /\ wPc = "idle"
    /\ wFd = -1
    /\ cPc = "idle"
    /\ cThen = "return"
    /\ nextId = 0
    /\ nIntents = 0
    /\ sent = <<>>
    /\ aborted = {}
    /\ dropped = {}

\* The decoder record, the second object and the poll cycle at rest.
DecodeIdle ==
    /\ cTelescopeRA_String = <<>>
    /\ cTelescopeDEC_String = <<>>
    /\ cTelescopeStatus_String = <<>>
    /\ dEntry = "none"
    /\ dFrame = <<>>
    /\ dRet = FALSE
    /\ dRead = {}
    /\ nFrames = 0

PairIdle ==
    /\ Slewing2 = FALSE
    /\ Tracking2 = FALSE
    /\ AtPark2 = FALSE
    /\ pSame = FALSE

PollIdle ==
    /\ pPc = "idle"
    /\ pReq = 0
    /\ pFrom = 0
    /\ mountPending = <<>>
    /\ rxBuffer = <<>>
    /\ pSent = <<>>
    /\ pGood = FALSE
    /\ pDisc = FALSE

Init == FramerInit /\ DriverInit /\ DecodeIdle /\ PairIdle /\ PollIdle

\* ------------------------------------------------------------------------
\* Next-state relations
\* ------------------------------------------------------------------------

HostIdle == hPc = "idle"
WorkerIdle == wPc = "idle"
CtlIdle == cPc = "idle"

\* Every handler runs to completion before another one starts.
Next ==
    \/ (\E op \in Intents : IntentCall(op)) /\ WorkerIdle /\ CtlIdle /\ UNCHANGED nonDriverVars
    \/ IntentStep /\ UNCHANGED nonDriverVars
    \/ IntentReturn /\ UNCHANGED nonDriverVars
    \/ DrainCall /\ HostIdle /\ CtlIdle /\ UNCHANGED nonDriverVars
    \/ DrainLoop /\ UNCHANGED nonDriverVars
    \/ DrainSend /\ UNCHANGED nonDrainVars
    \/ DrainShift /\ UNCHANGED nonDriverVars
    \/ AlpacaDisConnect_Close /\ HostIdle /\ WorkerIdle /\ UNCHANGED nonDriverVars
    \/ AlpacaDisConnect_Clear /\ UNCHANGED nonDriverVars
    \/ AlpacaConnect /\ HostIdle /\ WorkerIdle /\ UNCHANGED nonDriverVars

Spec == Init /\ [][Next]_vars

\* The intent calls made while the threads interleave: one that clears the
\* queue and enqueues one command, one that enqueues three commands.
ConcIntents == {op \in Intents : op.name \in {"AbortSlew", "SlewToRA_DEC"}}

\* The host thread, the worker thread and the disconnect interleave.
NextConc ==
    \/ (\E op \in ConcIntents : IntentCall(op)) /\ UNCHANGED nonDriverVars
    \/ IntentStep /\ UNCHANGED nonDriverVars
    \/ IntentReturn /\ UNCHANGED nonDriverVars
    \/ DrainCall /\ UNCHANGED nonDriverVars
    \/ DrainLoop /\ UNCHANGED nonDriverVars
    \/ DrainSend /\ UNCHANGED nonDrainVars
    \/ DrainShift /\ UNCHANGED nonDriverVars
    \/ AlpacaDisConnect_Close /\ UNCHANGED nonDriverVars
    \/ AlpacaDisConnect_Clear /\ UNCHANGED nonDriverVars
    \/ AlpacaConnect /\ UNCHANGED nonDriverVars

SpecConc == Init /\ [][NextConc]_vars

NextFramer ==
    \/ (\E cmd \in {CmdGEP, CmdGLS} : FramerCall(cmd)) /\ UNCHANGED nonFramerVars
    \/ FramerWrite /\ UNCHANGED nonFramerVars
    \/ FramerReadByte /\ UNCHANGED nonFramerVars
    \/ FramerReadEOF /\ UNCHANGED nonFramerVars
    \/ FramerReadError /\ UNCHANGED nonFramerVars
    \/ FramerSelectTimeout /\ UNCHANGED nonFramerVars
    \/ FramerBufferFull /\ UNCHANGED nonFramerVars
    \/ FramerReturn /\ UNCHANGED nonFramerVars

SpecFramer == Init /\ [][NextFramer]_vars

\* ------------------------------------------------------------------------
\* Properties of iOptron_SendCommand (checked under SpecFramer)
\* ------------------------------------------------------------------------

HasTerminator(buf) == \E i \in 1 .. Len(buf) : buf[i] = Terminator

\* C8: one request never waits longer than a single deadline interval
\* (SelectTimeoutSec seconds) in total after its write, even when the bytes
\* that arrive never include the terminator.
C8_TotalWaitWithinOneDeadline == fWaited <= SelectTimeoutSec

\* C9: the read loop stops at the first '#': the frame holds at most one '#',
\* which is then its last byte, every byte taken from the transport is in the
\* frame (nothing after the '#' is consumed), and after a select timeout, a
\* zero-byte read or a read error the frame is the bytes accumulated so far,
\* without a terminator.
C9_StopsAtFirstTerminator ==
    /\ returnBuffer = fConsumed
    /\ totalBytesRead = Len(returnBuffer)
    /\ \A i \in 1 .. Len(returnBuffer) :
          returnBuffer[i] = Terminator => i = Len(returnBuffer)
    /\ fPc = "read" => ~HasTerminator(returnBuffer)
    /\ fExit \in {"timeout", "eof", "read_error"} => ~HasTerminator(returnBuffer)
    /\ fExit = "terminator" => HasTerminator(returnBuffer)

\* C9 witness: a request that read two bytes and then the terminator.
C9_Witness ==
    /\ fPc = "done"
    /\ fExit = "terminator"
    /\ Len(returnBuffer) = 3

\* C10 as stated: after a failed or short write the request logged it and
\* went through the read phase (at least one select() call).
C10_FailedOrShortWriteStillReads ==
    (fPc = "done" /\ bytesWritten # Len(fCmd)) =>
        (fLog # "none" /\ fSelects > 0)

\* C10 amended: a short write (0 <= bytesWritten < length) is logged and the
\* request goes on to the read phase and returns the bytes that arrived; a
\* failed write (bytesWritten < 0) is logged and the request returns 0 at
\* once, with an empty frame and without reading.
C10_ShortWriteReadsFailedWriteReturns ==
    /\ (fPc \in {"read", "done"} /\ bytesWritten >= 0 /\ bytesWritten # Len(fCmd)) =>
          /\ fLog = "partial_write"
          /\ fExit # "write_error"
          /\ fPc = "done" => (fSelects > 0 /\ totalBytesRead = Len(fConsumed))
    /\ (fPc = "done" /\ bytesWritten < 0) =>
          /\ fLog = "write_error"
          /\ fSelects = 0
          /\ totalBytesRead = 0
          /\ returnBuffer = <<>>

\* C10 witness: a short write whose reply was read up to its terminator.
C10_Witness ==
    /\ fPc = "done"
    /\ bytesWritten >= 0
    /\ bytesWritten # Len(fCmd)
    /\ fExit = "terminator"
    /\ totalBytesRead = 2

\* ------------------------------------------------------------------------
\* Properties of the command queue (checked under Spec, C3 under SpecConc)
\* ------------------------------------------------------------------------

SentIds == {sent[i].id : i \in 1 .. Len(sent)}

\* C1: SendCmdsFromQueue writes the queued commands in the order they were
\* enqueued: the commands written carry strictly increasing admission
\* numbers (none reordered, none written twice) and no command still in the
\* queue was admitted before one already written (none sent ahead of an
\* earlier one).
C1_SentInEnqueueOrder ==
    /\ \A i, j \in 1 .. Len(sent) : i < j => sent[i].id < sent[j].id
    /\ \A i \in 1 .. Len(sent) : \A k \in QueueIds : sent[i].id <= k

\* C1 witness: the three commands of one slew were written, in order.
C1_Witness ==
    /\ Len(sent) = 3
    /\ sent[1].id = 1
    /\ sent[3].id = 3
    /\ cQueuedCmdCnt = 0

\* C2: when AlpacaDisConnect returns, cQueuedCmdCnt is 0, whatever the queue
\* held and whichever connection type is configured; the queue stays empty
\* for as long as the driver stays disconnected.
C2_DisconnectClearsQueue ==
    /\ [][(cPc = "clear" /\ cPc' = "idle") => cQueuedCmdCnt' = 0]_vars
    /\ []((~Connected /\ CtlIdle) => cQueuedCmdCnt = 0)

\* C2 witness: a disconnect returned after discarding three queued commands
\* of an Ethernet connection.
C2_Witness ==
    /\ CtlIdle
    /\ ~Connected
    /\ cDeviceConnType = "Ethernet"
    /\ Cardinality(dropped) = 3
    /\ cQueuedCmdCnt = 0

\* C3: no command of an intent call whose connection check passed before a
\* disconnect is written to the transport of a later connection, also when
\* the call interleaves with AlpacaDisConnect: every command written went to
\* the connection its intent call saw.
C3_NoCommandOnLaterConnection ==
    \A i \in 1 .. Len(sent) : sent[i].sep <= sent[i].cep

\* C4: an intent call made while Connected or cTelescopeConnectionOpen is
\* false returns the not-connected error, enqueues nothing and leaves
\* Slewing, Tracking, AtPark and TrackingRate unchanged.  (With the host
\* idle, a step that changes the host's variables is an intent call.)
C4_NotConnectedRejects ==
    [][(hPc = "idle" /\ hostVars' # hostVars
            /\ (~Connected \/ ~cTelescopeConnectionOpen))
         => /\ hResult' = "NotConnected"
            /\ hPc' = "idle"
            /\ UNCHANGED <<cQueuedCmdCnt, cCmdQueue, nextId>>
            /\ UNCHANGED <<Slewing, Tracking, AtPark, TrackingRate>>]_vars

\* C4 witness: a call was rejected after a disconnect, with Slewing and
\* AtPark still as the earlier park left them.
C4_Witness ==
    /\ hResult = "NotConnected"
    /\ hPc = "idle"
    /\ ~Connected
    /\ Slewing
    /\ AtPark
    /\ cQueuedCmdCnt = 0

\* C5: during a drain every command is removed after its one send attempt,
\* whatever the reply (missing, malformed or valid): a command that was
\* written is in the queue only between its write and the shift that follows,
\* the step after a send attempt removes the head, and the drain loop ends
\* only on an empty queue, so that no command is written twice or kept for a
\* retry.
C5_RemovedAfterOneSendAttempt ==
    /\ [](\A i \in 1 .. Len(sent) :
             sent[i].id \in QueueIds => (i = Len(sent) /\ wPc = "shift"))
    /\ [][wPc = "shift" =>
             /\ cQueuedCmdCnt' = cQueuedCmdCnt - 1
             /\ cCmdQueue[0].id \notin
                   {cCmdQueue'[i].id : i \in {j \in Slots : j < cQueuedCmdCnt'}}]_vars
    /\ [][(wPc = "loop" /\ wPc' = "idle" /\ HandleValid) => cQueuedCmdCnt = 0]_vars

\* C5 witness: a drain sent three commands, one of them answered by a valid
\* coordinate frame, and returned with the queue empty.
C5_Witness ==
    /\ wPc = "idle"
    /\ Len(sent) = 3
    /\ RightAscension # 0
    /\ cQueuedCmdCnt = 0

\* C6: when Telescope_AbortSlew returns success the queue holds exactly one
\* command, ":Q#", and no command that was pending before the abort is
\* written to the mount afterwards.
C6_AbortLeavesOnlyQ ==
    /\ (hPc = "run" /\ hBody = <<>> /\ hOp.name = "AbortSlew") =>
          /\ hResult = "Success"
          /\ cQueuedCmdCnt = 1
          /\ cCmdQueue[0].cmd = CmdQ
          /\ ~Slewing
    /\ SentIds \cap aborted = {}

\* C6 witness: an abort discarded the three commands of a slew and the drain
\* that followed wrote only the abort command.
C6_Witness ==
    /\ Cardinality(aborted) = 3
    /\ Len(sent) = 1
    /\ sent[1].id = 4
    /\ cQueuedCmdCnt = 0
    /\ wPc = "idle"

\* C7: an intent call returns success only if every command it produced was
\* admitted to the queue; a command the full queue could not take is not
\* dropped silently.
C7_SuccessOnlyIfAllAdmitted ==
    (hPc = "run" /\ hBody = <<>> /\ hResult = "Success") => hDropped = 0

\* ------------------------------------------------------------------------
\* The fixed-width decoders: Process_GEP_Response and Process_GLS_Response
\* ------------------------------------------------------------------------

\* if (strLen >= 20), line 993; if (strLen >= 23), line 1051.
GEP_MinLen == 20
GLS_MinLen == 23

\* if (strlen(dataBuffer) < 32) strcpy(...), lines 914, 938, 1019;
\* if (strLen < 64) strcpy(cTelescopeStatus_String, ...), line 1054.
StatusStringCap == 64

\* strncpy(dst, &dataBuffer[off], n); dst[n] = 0: the n characters from
\* zero-based offset off, up to the end of the string.
StrNCpy(buf, off, n) ==
    LET last == IF off + n <= Len(buf) THEN off + n ELSE Len(buf)
    IN  IF off + 1 <= last THEN SubSeq(buf, off + 1, last) ELSE <<>>

\* atoll(): as atoi, on a field of at most nine digits.
Atoll(str) == Atoi(str, 1)

\* dec_degrees >= -90.0 && dec_degrees <= 90.0 and ra_hours >= 0.0 &&
\* ra_hours < 24.0 (lines 1009, 1013), on the values in 0.01 arc-second.
DecInRange_Any(d) == TRUE
DecInRange(d) == d >= -32400000 /\ d <= 32400000
RAInRange(r) == r >= 0 /\ r < 129600000

\* The fields the decoders write.
MountState ==
    [ra |-> RightAscension, dec |-> Declination,
     slewing |-> Slewing, tracking |-> Tracking, atPark |-> AtPark,
     rate |-> TrackingRate,
     raStr |-> cTelescopeRA_String, decStr |-> cTelescopeDEC_String,
     statusStr |-> cTelescopeStatus_String]

\* The length test of Process_GEP_Response, line 993.
GEP_LongEnough(buf) == Len(buf) >= GEP_MinLen

\* The length test of Process_GLS_Response, line 1051.
GLS_LongEnough_Any(buf) == TRUE
GLS_LongEnough(buf) == Len(buf) >= GLS_MinLen

\* strncpy(decStr, &dataBuffer[1], 8) and strncpy(raStr, &dataBuffer[9], 9),
\* lines 997 and 1003.
GEP_DecField(buf) == StrNCpy(buf, 1, 8)
GEP_RAField_From8(buf) == StrNCpy(buf, 8, 9)
GEP_RAField(buf) == StrNCpy(buf, 9, 9)

\* Process_GEP_Response, lines 977-1026: the mount state it leaves.
Process_GEP_Response(buf, m) ==
    IF CheckForValidResponse(buf) /\ GEP_LongEnough(buf)
    THEN LET sign == IF CharAt(buf, 1) = "-" THEN -1 ELSE 1
             dec_arcsec_01 == Atoll(GEP_DecField(buf)) * sign
             ra_arcsec_01  == Atoll(GEP_RAField(buf))
         IN  [m EXCEPT
                !.dec = IF DecInRange(dec_arcsec_01) THEN dec_arcsec_01 ELSE @,
                !.ra  = IF RAInRange(ra_arcsec_01) THEN ra_arcsec_01 ELSE @,
                !.decStr = IF Len(buf) < RawStringCap THEN buf ELSE @]
    ELSE m

\* switch(systemStatus), lines 1061-1096: the flags after status digit c.
StatusFlags_Swapped(c, m) ==
    [m EXCEPT !.slewing = c \in {"1", "3", "5"},
              !.tracking = c \in {"2", "4"},
              !.atPark = IF c = "6" THEN TRUE ELSE @]
StatusFlags(c, m) ==
    IF c \in {"0", "7"} THEN [m EXCEPT !.slewing = FALSE, !.tracking = FALSE]
    ELSE IF c \in {"1", "3", "5"} THEN [m EXCEPT !.slewing = FALSE, !.tracking = TRUE]
    ELSE IF c \in {"2", "4"} THEN [m EXCEPT !.slewing = TRUE, !.tracking = FALSE]
    ELSE IF c = "6"
    THEN [m EXCEPT !.atPark = TRUE, !.slewing = FALSE, !.tracking = FALSE]
    ELSE m

\* switch(trackingRate), lines 1100-1118.
StatusRate_Shifted(c) == CASE c = "0" -> "Lunar" [] c = "1" -> "Solar"
                           [] c = "2" -> "King" [] OTHER -> "Sidereal"
StatusRate(c) == CASE c = "1" -> "Lunar" [] c = "2" -> "Solar"
                   [] c = "3" -> "King" [] OTHER -> "Sidereal"

\* Process_GLS_Response, lines 1040-1122: the mount state it leaves.
Process_GLS_Response(buf, m) ==
    IF CheckForValidResponse(buf) /\ GLS_LongEnough(buf)
    THEN LET st == StatusFlags(CharAt(buf, 19), m)
         IN  [st EXCEPT
                !.statusStr = IF Len(buf) < StatusStringCap THEN buf ELSE @,
                !.rate = StatusRate(CharAt(buf, 20))]
    ELSE m

\* Zero-based offsets of dataBuffer a decoder reads at fixed positions:
\* dataBuffer[0], strncpy from offsets 1 and 9 (lines 996-1003) and
\* dataBuffer[18], dataBuffer[19] (lines 1060, 1099).  strlen, strcpy and the
\* test of the last character stay inside the string by construction.
FieldReads(entry, buf) ==
    (IF entry = "GEP" /\ CheckForValidResponse(buf) /\ GEP_LongEnough(buf)
     THEN 0 .. 17 ELSE {})
    \cup (IF entry = "GLS" /\ CheckForValidResponse(buf) /\ GLS_LongEnough(buf)
          THEN {18, 19} ELSE {})

\* ------------------------------------------------------------------------
\* Decoder calls on reply frames (SpecDecode)
\* ------------------------------------------------------------------------

\* The mount state each entry point leaves.
DecodeResult(entry, buf, m) ==
    CASE entry = "GEP" -> Process_GEP_Response(buf, m)
      [] entry = "GLS" -> Process_GLS_Response(buf, m)
      [] entry = "RA"  ->
            [m EXCEPT !.ra = Process_RA_Response(buf, @),
                      !.raStr = Process_RA_String(buf, @)]
      [] entry = "DEC" ->
            [m EXCEPT !.dec = Process_DEC_Response(buf, @),
                      !.decStr = Process_DEC_String(buf, @)]
      [] entry = "iOptron" ->
            LET pos == Process_iOptronResponse(buf, m.ra, m.dec)
                str == Process_iOptronStrings(buf, m.raStr, m.decStr)
            IN  [m EXCEPT !.ra = pos[1], !.dec = pos[2],
                          !.raStr = str[1], !.decStr = str[2]]

\* return(isValid): every entry point returns CheckForValidResponse(dataBuffer)
\* (lines 894, 921, 945, 1025, 1121).
DecodeReturn(entry, buf) == CheckForValidResponse(buf)

RECURSIVE Rep(_, _)
Rep(c, n) == IF n = 0 THEN <<>> ELSE <<c>> \o Rep(c, n - 1)

\* What the mount sends for a position: sign, 8 digits of declination and
\* 9 digits of right ascension, both in 0.01 arc-second (lines 400-402).
EncodePosition(dec, ra) ==
    <<IF dec < 0 THEN "-" ELSE "+">>
        \o ZeroPad(Digits(IF dec < 0 THEN -dec ELSE dec), 8)
        \o ZeroPad(Digits(ra), 9)

\* sTTTTTTTTTTTTTTTTTnn#: the position, side of pier, pointing state and the
\* terminator (lines 400-404).
GEPFrame(dec, ra) == EncodePosition(dec, ra) \o <<"0", "1", "#">>

\* The position followed by the terminator alone (19 characters).
BareFrame(dec, ra) == EncodePosition(dec, ra) \o <<"#">>

\* sTTTTTTTTTTTTTTTTnnnnnn#: 17 digits of site data, system status at offset
\* 18, tracking rate at offset 19, three more digits (lines 1030-1038).
GLSFrame(status, rate) ==
    <<"+">> \o Rep("0", 17) \o <<status, rate>> \o <<"1", "1", "1", "#">>

\* Positions inside the valid ranges, in 0.01 arc-second.
Positions ==
    {[dec |-> -11970000, ra |-> 67500000],
     [dec |-> 32400000,  ra |-> 129599999],
     [dec |-> -32400000, ra |-> 0]}

StatusChars == {"0", "1", "2", "3", "4", "5", "6", "7", "8", "x"}

RateChars == {"0", "1", "2", "3", "5"}

Unterminated(f) == SubSeq(f, 1, Len(f) - 1)

FixedWidthFrames ==
    {GEPFrame(p.dec, p.ra) : p \in Positions}
    \cup {BareFrame(p.dec, p.ra) : p \in Positions}
    \cup {GEPFrame(32400001, 129600000),
          <<"+">> \o Rep("x", 19) \o <<"#">>}
    \cup {GLSFrame(c, "2") : c \in StatusChars}
    \cup {GLSFrame("1", r) : r \in RateChars}
    \cup {<<"+">> \o Rep("0", 17) \o <<"2", "3", "1", "#">>}

SexagesimalFrames ==
    {<<"+", "1", "2", ":", "3", "0", ":", "0", "0", "#">>,
     <<"2", "5", ":", "3", "0", ":", "0", "0", "#">>,
     <<"-", "4", "5", "*", "3", "0", ":", "0", "0", "#">>,
     <<"+", "9", "5", "*", "0", "0", ":", "0", "0", "#">>,
     <<"1", "#">>}

\* Frames CheckForValidResponse rejects: empty, or not ending in '#'.
InvalidFrames ==
    {<<>>, <<"1">>, <<"#", "1">>,
     Unterminated(GEPFrame(-11970000, 67500000)),
     Unterminated(GLSFrame("6", "1")),
     <<"+", "1", "2", ":", "3", "0", ":", "0", "0">>}

\* The frames given to each entry point.  The sexagesimal parsers are not
\* given the fixed-width frames, whose digit runs exceed what atoi converts;
\* Process_iOptronResponse passes no frame without ':' or '*' on to them.
FramesFor(entry) ==
    IF entry \in {"RA", "DEC"} THEN SexagesimalFrames \cup InvalidFrames
    ELSE IF entry = "iOptron"
    THEN SexagesimalFrames \cup InvalidFrames
            \cup {GEPFrame(-11970000, 67500000), GLSFrame("6", "2")}
    ELSE FixedWidthFrames \cup SexagesimalFrames \cup InvalidFrames

\* One call of a decoder entry point on a frame.
DecodeCall(entry, buf) ==
    /\ LET m == DecodeResult(entry, buf, MountState) IN
        /\ RightAscension' = m.ra
        /\ Declination' = m.dec
        /\ Slewing' = m.slewing
        /\ Tracking' = m.tracking
        /\ AtPark' = m.atPark
        /\ TrackingRate' = m.rate
        /\ cTelescopeRA_String' = m.raStr
        /\ cTelescopeDEC_String' = m.decStr
        /\ cTelescopeStatus_String' = m.statusStr
    /\ dEntry' = entry
    /\ dFrame' = buf
    /\ dRet' = DecodeReturn(entry, buf)
    /\ dRead' = FieldReads(entry, buf)
    /\ nFrames' = nFrames + 1

Decode(entry, buf) ==
    /\ nFrames < MaxFrames
    /\ DecodeCall(entry, buf)
    /\ UNCHANGED <<connVars, statVars, queueVars, hostVars, workerVars,
                   ctlVars, histVars, framerVars, pairVars, pollVars>>

\* The driver as constructed on a serial port that opened.
InitDecode ==
    /\ Init
    /\ cDeviceConnType = "Serial"
    /\ cTelescopeConnectionOpen

NextDecode ==
    \/ \E f \in FramesFor("iOptron") : Decode("iOptron", f)
    \/ \E f \in FramesFor("RA") : Decode("RA", f)
    \/ \E f \in FramesFor("DEC") : Decode("DEC", f)
    \/ \E f \in FramesFor("GEP") : Decode("GEP", f)
    \/ \E f \in FramesFor("GLS") : Decode("GLS", f)

SpecDecode == InitDecode /\ [][NextDecode]_vars

\* A step that is one decoder call.
DecodeStep == nFrames' = nFrames + 1

\* C12: a decoder entry point given an empty frame, or a frame whose last
\* character is not '#', returns invalid and changes no field of MountState.
C12_UnterminatedFrameRejected ==
    [][(DecodeStep /\ (dFrame' = <<>> \/ dFrame'[Len(dFrame')] # "#"))
        => (dRet' = FALSE /\ MountState' = MountState)]_vars

\* C12 witness: a 22-character status frame without terminator was refused
\* by Process_GLS_Response after an earlier call had stored a position.
C12_Witness ==
    /\ dEntry = "GLS"
    /\ dFrame = Unterminated(GLSFrame("6", "1"))
    /\ dRet = FALSE
    /\ ~AtPark
    /\ Declination = -11970000

\* C13: Process_GEP_Response given a frame shorter than 20 characters reports
\* it as not valid, reads no offset past its end and changes no MountState field.
C13_ShortPositionFrameRejected ==
    [][(DecodeStep /\ dEntry' = "GEP" /\ Len(dFrame') < 20)
        => (/\ dRet' = FALSE
            /\ \A i \in dRead' : i < Len(dFrame')
            /\ MountState' = MountState)]_vars

\* C14: Process_GLS_Response given a frame shorter than 23 characters changes
\* none of slewing, tracking, at-park and tracking rate and does not read
\* offsets 18 and 19.
C14_ShortStatusFrameIgnored ==
    [][(DecodeStep /\ dEntry' = "GLS" /\ Len(dFrame') < 23)
        => (/\ Slewing' = Slewing /\ Tracking' = Tracking
            /\ AtPark' = AtPark /\ TrackingRate' = TrackingRate
            /\ dRead' \cap {18, 19} = {})]_vars

\* C14 witness: a terminated 22-character frame with '2' at offset 18 reached
\* Process_GLS_Response while the mount was tracking at the solar rate.
C14_Witness ==
    /\ dEntry = "GLS"
    /\ Len(dFrame) = 22
    /\ dFrame[19] = "2"
    /\ dRet = TRUE
    /\ Tracking /\ ~Slewing
    /\ TrackingRate = "Solar"

\* The frames of the model whose decoded value is outside the valid range.
OutOfRangeCall ==
    \/ dEntry' = "GEP" /\ dFrame' = GEPFrame(32400001, 129600000)
    \/ dEntry' = "DEC" /\ dFrame' = <<"+", "9", "5", "*", "0", "0", ":", "0", "0", "#">>

\* A frame without terminator, or too short for the fixed-width decoder.
MalformedCall ==
    \/ dFrame' = <<>>
    \/ dFrame'[Len(dFrame')] # "#"
    \/ dEntry' = "GEP" /\ Len(dFrame') < 20

C16_BareFrameRoundTrip ==
    [][\A p \in Positions :
        (DecodeStep /\ dEntry' = "GEP" /\ dFrame' = BareFrame(p.dec, p.ra))
            => (Declination' = p.dec /\ RightAscension' = p.ra)]_vars

\* C16 amended: the frame sign + 8 digits + 9 digits + the two digits of pier
\* side and pointing state + '#' decodes through Process_GEP_Response to
\* exactly the declination and right ascension it encodes.
C16_PositionFrameRoundTrip ==
    [][\A p \in Positions :
        (DecodeStep /\ dEntry' = "GEP" /\ dFrame' = GEPFrame(p.dec, p.ra))
            => (Declination' = p.dec /\ RightAscension' = p.ra)]_vars

\* C16 witness: the frame for declination -33.25 degrees and right ascension
\* 12.5 hours was decoded over a different stored position.
C16_Witness ==
    /\ dEntry = "GEP"
    /\ dFrame = GEPFrame(-11970000, 67500000)
    /\ nFrames = 2
    /\ Declination = -11970000
    /\ RightAscension = 67500000
    /\ cTelescopeDEC_String = dFrame

\* C19: on a valid status frame Process_GLS_Response sets (slewing, tracking)
\* from the digit at offset 18 by the table 0:(F,F) 1:(F,T) 2:(T,F) 3:(F,T)
\* 4:(T,F) 5:(F,T) 6:(F,F) with at-park true, 7:(F,F); any other character
\* leaves slewing, tracking and at-park unchanged.
C19_StatusTable ==
    [][\A c \in StatusChars :
        (DecodeStep /\ dEntry' = "GLS" /\ dFrame' = GLSFrame(c, "2"))
            => CASE c \in {"0", "7"} -> ~Slewing' /\ ~Tracking'
                 [] c \in {"1", "3", "5"} -> ~Slewing' /\ Tracking'
                 [] c \in {"2", "4"} -> Slewing' /\ ~Tracking'
                 [] c = "6" -> ~Slewing' /\ ~Tracking' /\ AtPark'
                 [] OTHER -> /\ Slewing' = Slewing /\ Tracking' = Tracking
                             /\ AtPark' = AtPark]_vars

\* C19 witness: status digit 2 was decoded, and an unrecognised digit after a
\* slew was decoded leaving the slewing flag set.
C19_Witness ==
    /\ dEntry = "GLS"
    /\ dFrame = GLSFrame("8", "2")
    /\ nFrames = 2
    /\ Slewing /\ ~Tracking /\ ~AtPark

\* C21: on a valid status frame of at least 23 characters the character at
\* offset 19 sets the tracking rate: 0 sidereal, 1 lunar, 2 solar, 3 king, any
\* other character sidereal; the call returns valid and counts no error.
C21_TrackingRateTable ==
    [][\A r \in RateChars :
        (DecodeStep /\ dEntry' = "GLS" /\ dFrame' = GLSFrame("1", r))
            => /\ TrackingRate' = (CASE r = "0" -> "Sidereal"
                                     [] r = "1" -> "Lunar"
                                     [] r = "2" -> "Solar"
                                     [] r = "3" -> "King"
                                     [] OTHER -> "Sidereal")
               /\ dRet' = TRUE
               /\ cIOptron_CommErrCnt' = cIOptron_CommErrCnt]_vars

\* C21 witness: a status frame with the unassigned rate code 5 was decoded
\* as the second frame and left the rate sidereal.
C21_Witness ==
    /\ dEntry = "GLS"
    /\ dFrame = GLSFrame("1", "5")
    /\ nFrames = 2
    /\ dRet = TRUE
    /\ TrackingRate = "Sidereal"
    /\ Tracking

\* C22: Process_iOptronResponse decodes a terminated reply by its shape: the
\* frame -45*30:00# sets the declination to -45.5 degrees and leaves the
\* right ascension, the frame 25:30:00# sets the right ascension (to 1.5 h
\* after normalisation) and leaves the declination.
C22_DecodedByShape ==
    [][(DecodeStep /\ dEntry' = "iOptron")
        => /\ dFrame' = <<"-", "4", "5", "*", "3", "0", ":", "0", "0", "#">>
                => /\ Declination' = -16380000
                   /\ RightAscension' = RightAscension
           /\ dFrame' = <<"2", "5", ":", "3", "0", ":", "0", "0", "#">>
                => /\ RightAscension' = 8100000
                   /\ Declination' = Declination]_vars

\* ------------------------------------------------------------------------
\* Slew and sync calls with targets in and out of range (SpecEncode)
\* ------------------------------------------------------------------------

\* Targets in thousandths of an hour and of a degree: inside the ranges, on
\* their ends and beyond them.
EncodeTargets ==
    {[ra |-> 12500,  dec |-> -33250],
     [ra |-> 0,      dec |-> 0],
     [ra |-> 24000,  dec |-> 90000],
     [ra |-> 25000,  dec |-> 91000],
     [ra |-> -1000,  dec |-> -91000],
     [ra |-> 390000, dec |-> -1]}

EncodeIntents ==
    {[name |-> n, a |-> t.ra, b |-> t.dec] :
        n \in {"SlewToRA_DEC", "SyncToRA_DEC"}, t \in EncodeTargets}

\* The host calls slew and sync on an open connection while the worker
\* drains the queue; every handler runs to completion.
NextEncode ==
    \/ (\E op \in EncodeIntents : IntentCall(op)) /\ WorkerIdle /\ UNCHANGED nonDriverVars
    \/ IntentStep /\ UNCHANGED nonDriverVars
    \/ IntentReturn /\ UNCHANGED nonDriverVars
    \/ DrainCall /\ HostIdle /\ UNCHANGED nonDriverVars
    \/ DrainLoop /\ UNCHANGED nonDriverVars
    \/ DrainSend /\ UNCHANGED nonDrainVars
    \/ DrainShift /\ UNCHANGED nonDriverVars

SpecEncode == InitDecode /\ [][NextEncode]_vars

AllDigits(str) == \A i \in 1 .. Len(str) : IsDigit(str[i])

IsSRA(c) == Len(c) >= 4 /\ SubSeq(c, 1, 4) = <<":", "S", "R", "A">>
IsSds(c) == Len(c) >= 4 /\ SubSeq(c, 1, 4) = <<":", "S", "d", "s">>

QueuedCmds == {QueueSeq[i].cmd : i \in 1 .. Len(QueueSeq)}

\* The value in 0.01 arc-second a target's coordinate is to be sent as.
ExpectedRA(raMilliHours) ==
    IF raMilliHours * 5400 < 0 THEN 0
    ELSE IF raMilliHours * 5400 > 129600000 THEN 129600000
    ELSE raMilliHours * 5400

ExpectedDec(decMilliDeg) ==
    IF decMilliDeg * 360 < -32400000 THEN -32400000
    ELSE IF decMilliDeg * 360 > 32400000 THEN 32400000
    ELSE decMilliDeg * 360

\* C17: slew and sync accept every target; the right ascension is sent as
\* :SRA + exactly 9 digits + # with a value in [0, 129600000], the declination
\* as :Sds + sign + exactly 8 digits + # with a value in [-32400000, 32400000],
\* each the target's coordinate clamped to the range.
C17_ClampedNeverRejected ==
    /\ [](\A c \in QueuedCmds :
            /\ IsSRA(c) =>
                /\ Len(c) = 14 /\ c[14] = "#"
                /\ AllDigits(SubSeq(c, 5, 13))
                /\ Atoi(SubSeq(c, 5, 13), 1) \in 0 .. 129600000
            /\ IsSds(c) =>
                /\ Len(c) = 14 /\ c[14] = "#"
                /\ c[5] \in {"+", "-"}
                /\ AllDigits(SubSeq(c, 6, 13))
                /\ Atoi(SubSeq(c, 6, 13), 1) \in 0 .. 32400000)
    /\ []((hPc = "run" /\ hBody = <<>> /\ hDropped = 0) =>
            /\ hResult = "Success"
            /\ \E c \in QueuedCmds :
                IsSRA(c) /\ Atoi(SubSeq(c, 5, 13), 1) = ExpectedRA(hOp.a)
            /\ \E c \in QueuedCmds :
                IsSds(c) /\ Atoi(SubSeq(c, 5, 13), 1) = ExpectedDec(hOp.b))

\* C17 witness: a slew to 25 h, +91 degrees was accepted and its coordinates
\* are queued as the ends of the ranges.
C17_Witness ==
    /\ hPc = "run" /\ hBody = <<>> /\ hDropped = 0
    /\ hOp.name = "SlewToRA_DEC" /\ hOp.a = 25000 /\ hOp.b = 91000
    /\ hResult = "Success"
    /\ <<":", "S", "R", "A", "1", "2", "9", "6", "0", "0", "0", "0", "0", "#">>
            \in QueuedCmds
    /\ <<":", "S", "d", "s", "+", "3", "2", "4", "0", "0", "0", "0", "0", "#">>
            \in QueuedCmds

\* A slew or sync to RA 12.5 h, Dec -33.25 degrees has run with every command
\* admitted to the queue.
TargetScenarioDone ==
    /\ hPc = "run" /\ hBody = <<>> /\ hDropped = 0
    /\ hOp.name \in {"SlewToRA_DEC", "SyncToRA_DEC"}
    /\ hOp.a = 12500 /\ hOp.b = -33250

\* C18 as stated: the target RA 12.5 h, Dec -33.25 degrees enqueues
\* :SRA675000000# and :Sds-11970000#.
C18_ScenarioAsStated ==
    TargetScenarioDone =>
        /\ <<":", "S", "R", "A", "6", "7", "5", "0", "0", "0", "0", "0", "0", "#">>
                \in QueuedCmds
        /\ <<":", "S", "d", "s", "-", "1", "1", "9", "7", "0", "0", "0", "0", "#">>
                \in QueuedCmds

\* C18 amended: the target RA 12.5 h, Dec -33.25 degrees enqueues
\* :SRA067500000# (67500000 in nine digits) and :Sds-11970000#.
C18_ScenarioNineDigits ==
    TargetScenarioDone =>
        /\ <<":", "S", "R", "A", "0", "6", "7", "5", "0", "0", "0", "0", "0", "#">>
                \in QueuedCmds
        /\ <<":", "S", "d", "s", "-", "1", "1", "9", "7", "0", "0", "0", "0", "#">>
                \in QueuedCmds

\* C18 witness: a sync to the target has queued its two coordinate commands
\* followed by :CM#.
C18_Witness ==
    /\ TargetScenarioDone
    /\ hOp.name = "SyncToRA_DEC"
    /\ cQueuedCmdCnt = 3
    /\ cCmdQueue[0].cmd =
          <<":", "S", "R", "A", "0", "6", "7", "5", "0", "0", "0", "0", "0", "#">>
    /\ cCmdQueue[1].cmd =
          <<":", "S", "d", "s", "-", "1", "1", "9", "7", "0", "0", "0", "0", "#">>
    /\ cCmdQueue[2].cmd = CmdCM

\* ------------------------------------------------------------------------
\* Two driver objects given the same status frame (SpecPair)
\* ------------------------------------------------------------------------

StatusFrames == {GLSFrame(c, "2") : c \in StatusChars}

\* The flags of the second object as a mount state.
MountState2 ==
    [MountState EXCEPT !.slewing = Slewing2, !.tracking = Tracking2,
                       !.atPark = AtPark2]

\* Process_GLS_Response of the second object.
Decode2(buf) ==
    LET m == Process_GLS_Response(buf, MountState2) IN
    /\ Slewing2' = m.slewing
    /\ Tracking2' = m.tracking
    /\ AtPark2' = m.atPark

ParkIntent == [name |-> "Park", a |-> 0, b |-> 0]

\* The first object alone decodes a status frame.
PairFirst(buf) ==
    /\ Decode("GLS", buf)
    /\ pSame' = FALSE

\* The second object alone decodes a status frame.
PairSecond(buf) ==
    /\ nFrames < MaxFrames
    /\ Decode2(buf)
    /\ pSame' = FALSE
    /\ nFrames' = nFrames + 1
    /\ UNCHANGED <<framerVars, driverVars, cTelescopeRA_String,
                   cTelescopeDEC_String, cTelescopeStatus_String,
                   dEntry, dFrame, dRet, dRead, pollVars>>

\* Both objects decode the same status frame.
PairBoth(buf) ==
    /\ hPc = "idle"
    /\ nFrames < MaxFrames
    /\ DecodeCall("GLS", buf)
    /\ Decode2(buf)
    /\ pSame' = TRUE
    /\ UNCHANGED <<connVars, statVars, queueVars, hostVars, workerVars,
                   ctlVars, histVars, framerVars, pollVars>>

PairUnchanged ==
    UNCHANGED <<framerVars, decodeVars, Slewing2, Tracking2, AtPark2, pollVars>>

\* The host parks the first object between the frames.
NextPair ==
    \/ \E f \in StatusFrames : PairFirst(f)
    \/ \E f \in StatusFrames : PairSecond(f)
    \/ \E f \in StatusFrames : PairBoth(f)
    \/ IntentCall(ParkIntent) /\ pSame' = FALSE /\ PairUnchanged
    \/ IntentStep /\ pSame' = FALSE /\ PairUnchanged
    \/ IntentReturn /\ pSame' = FALSE /\ PairUnchanged

SpecPair == InitDecode /\ [][NextPair]_vars

\* C20: after both objects decoded the same valid status frame with a status
\* digit 0-7, their slewing, tracking and at-park flags are identical,
\* whatever the flags were before.
C20_FlagsFunctionOfDigit ==
    (pSame /\ dFrame \in {GLSFrame(c, "2") : c \in {"0", "1", "2", "3", "4", "5", "6", "7"}})
        => (Slewing = Slewing2 /\ Tracking = Tracking2 /\ AtPark = AtPark2)

\* ------------------------------------------------------------------------
\* The poll cycle and the mount's replies (SpecPoll)
\* ------------------------------------------------------------------------

\* What the driver may read in answer to a request: a position or status
\* frame, one with a value out of range or a code outside the table, or the
\* part of a frame that arrived before the read gave up.
MountFrames(cmd) ==
    IF cmd = CmdGEP
    THEN {GEPFrame(-11970000, 67500000), GEPFrame(32400001, 129600000),
          Unterminated(GEPFrame(-11970000, 67500000))}
    ELSE {GLSFrame("1", "2"), GLSFrame("6", "2"), GLSFrame("8", "5")}

decodedVars == <<flagVars, posVars, decodeVars>>
pollHist == <<pGood, pDisc>>

\* SendCmdsPeriodic up to the first handle test (lines 381-420): nothing is
\* done unless cTelescopeConnectionOpen is set.
PollCall ==
    /\ pPc = "idle"
    /\ Len(pSent) + 2 <= MaxRequests
    /\ pPc' = IF cTelescopeConnectionOpen /\ HandleValid THEN "gepSend" ELSE "idle"
    /\ UNCHANGED <<pReq, pFrom, mountPending, rxBuffer, pSent, pollHist,
                   cTelescopeConnectionOpen, statVars, decodedVars>>

\* write() of iOptron_SendCommand (line 1142): the request reaches the mount,
\* which will answer it.  Nothing is read or discarded before the write.
PollWrite(at, cmd, frames, then) ==
    /\ pPc = at
    /\ pReq' = pReq + 1
    /\ pSent' = Append(pSent, cmd)
    /\ \E f \in frames :
         mountPending' = Append(mountPending, [req |-> pReq + 1, frame |-> f])
    /\ pPc' = then
    /\ UNCHANGED <<pFrom, rxBuffer, pollHist, cTelescopeConnectionOpen,
                   statVars, decodedVars>>

\* The mount's oldest outstanding reply arrives at the driver's input.
MountReply ==
    /\ mountPending # <<>>
    /\ rxBuffer' = Append(rxBuffer, Head(mountPending))
    /\ mountPending' = Tail(mountPending)
    /\ UNCHANGED <<pPc, pReq, pFrom, pSent, pollHist, cTelescopeConnectionOpen,
                   statVars, decodedVars>>

\* The read loop of iOptron_SendCommand returns the bytes up to the first '#'
\* at the input (lines 1156-1186), and SendCmdsPeriodic hands them to
\* Process_GEP_Response (lines 423-435).
PollReadGEP ==
    /\ pPc = "gepRead"
    /\ rxBuffer # <<>>
    /\ LET r == Head(rxBuffer) IN
        /\ rxBuffer' = Tail(rxBuffer)
        /\ pFrom' = r.req
        /\ DecodeCall("GEP", r.frame)
        /\ cTelescopeInfoValid' = DecodeReturn("GEP", r.frame)
        /\ cIOptron_CommErrCnt' = IF DecodeReturn("GEP", r.frame)
                                  THEN cIOptron_CommErrCnt
                                  ELSE cIOptron_CommErrCnt + 1
        /\ pGood' = (pGood \/ (/\ r.frame \in MountFrames(CmdGEP)
                               /\ DecodeReturn("GEP", r.frame)))
    /\ pPc' = "glsSend"
    /\ UNCHANGED <<pReq, mountPending, pSent, pDisc, cTelescopeConnectionOpen>>

\* What the branch taken when iOptron_SendCommand returned 0 does to
\* cTelescopeConnectionOpen and where SendCmdsPeriodic goes on from it
\* (lines 437-440, 442-450): the flag is not touched and the status request
\* follows.
ConnectionOpenAfterFailure_Closed(open) == FALSE
ConnectionOpenAfterFailure(open) == open

PcAfterFailedGEP_Return == "idle"
PcAfterFailedGEP == "glsSend"

\* select() times out with nothing at the input, or read() reports the end
\* of the stream: iOptron_SendCommand returns 0 and SendCmdsPeriodic counts
\* an error (lines 1173-1191, 437-440).
PollTimeoutGEP ==
    /\ pPc = "gepRead"
    /\ rxBuffer = <<>>
    /\ cIOptron_CommErrCnt' = cIOptron_CommErrCnt + 1
    /\ cTelescopeConnectionOpen' = ConnectionOpenAfterFailure(cTelescopeConnectionOpen)
    /\ pPc' = PcAfterFailedGEP
    /\ UNCHANGED <<pReq, pFrom, mountPending, rxBuffer, pSent, pollHist,
                   cTelescopeInfoValid, decodedVars>>

\* write() fails: iOptron_SendCommand returns 0 without reading
\* (lines 1144-1149) and the same branch of SendCmdsPeriodic is taken.
PollWriteFailsGEP ==
    /\ pPc = "gepSend"
    /\ pSent' = Append(pSent, CmdGEP)
    /\ cIOptron_CommErrCnt' = cIOptron_CommErrCnt + 1
    /\ cTelescopeConnectionOpen' = ConnectionOpenAfterFailure(cTelescopeConnectionOpen)
    /\ pPc' = PcAfterFailedGEP
    /\ UNCHANGED <<pReq, pFrom, mountPending, rxBuffer, pollHist,
                   cTelescopeInfoValid, decodedVars>>

\* The second handle test (lines 450-462).
PollHandleGLS ==
    /\ pPc = "glsSend"
    /\ pPc' = IF HandleValid THEN "glsWrite" ELSE "idle"
    /\ UNCHANGED <<pReq, pFrom, mountPending, rxBuffer, pSent, pollHist,
                   cTelescopeConnectionOpen, statVars, decodedVars>>

\* The reply read for :GLS# goes to Process_GLS_Response (lines 465-469).
PollReadGLS ==
    /\ pPc = "glsRead"
    /\ rxBuffer # <<>>
    /\ LET r == Head(rxBuffer) IN
        /\ rxBuffer' = Tail(rxBuffer)
        /\ pFrom' = r.req
        /\ DecodeCall("GLS", r.frame)
    /\ pPc' = "idle"
    /\ UNCHANGED <<pReq, mountPending, pSent, pollHist,
                   cTelescopeConnectionOpen, statVars>>

\* No reply to :GLS#, or its write() fails: nothing is decoded or counted
\* (lines 463-470).
PollTimeoutGLS ==
    /\ pPc = "glsRead"
    /\ rxBuffer = <<>>
    /\ pPc' = "idle"
    /\ cTelescopeConnectionOpen' = ConnectionOpenAfterFailure(cTelescopeConnectionOpen)
    /\ UNCHANGED <<pReq, pFrom, mountPending, rxBuffer, pSent, pollHist,
                   statVars, decodedVars>>

PollWriteFailsGLS ==
    /\ pPc = "glsWrite"
    /\ pSent' = Append(pSent, CmdGLS)
    /\ pPc' = "idle"
    /\ cTelescopeConnectionOpen' = ConnectionOpenAfterFailure(cTelescopeConnectionOpen)
    /\ UNCHANGED <<pReq, pFrom, mountPending, rxBuffer, pollHist,
                   statVars, decodedVars>>

\* close() of the handle in AlpacaDisConnect (lines 264-298): what the mount
\* still had to send, and what had arrived unread, is gone with the handle.
PollStreamsClosed ==
    /\ IF openHandles' # openHandles
       THEN mountPending' = <<>> /\ rxBuffer' = <<>>
       ELSE UNCHANGED <<mountPending, rxBuffer>>
    /\ UNCHANGED <<pPc, pReq, pFrom, pSent, pollHist>>

pollFrame == <<cDeviceConnType, cSocket_desc, cDeviceConnFileDesc, Connected,
               cSetupChangeOccured, openHandles, connEpoch,
               queueVars, hostVars, workerVars, ctlVars, histVars,
               framerVars, pairVars>>
lifeFrame == <<framerVars, decodeVars, pairVars>>

\* SendCmdsPeriodic, AlpacaDisConnect and AlpacaConnect each run to their
\* end before another of them starts.
NextPoll ==
    \/ PollCall /\ CtlIdle /\ UNCHANGED pollFrame
    \/ PollWrite("gepSend", CmdGEP, MountFrames(CmdGEP), "gepRead")
            /\ UNCHANGED pollFrame
    \/ PollWriteFailsGEP /\ UNCHANGED pollFrame
    \/ MountReply /\ UNCHANGED pollFrame
    \/ PollReadGEP /\ UNCHANGED pollFrame
    \/ PollTimeoutGEP /\ UNCHANGED pollFrame
    \/ PollHandleGLS /\ UNCHANGED pollFrame
    \/ PollWrite("glsWrite", CmdGLS, MountFrames(CmdGLS), "glsRead")
            /\ UNCHANGED pollFrame
    \/ PollWriteFailsGLS /\ UNCHANGED pollFrame
    \/ PollReadGLS /\ UNCHANGED pollFrame
    \/ PollTimeoutGLS /\ UNCHANGED pollFrame
    \/ pPc = "idle" /\ AlpacaDisConnect_Close /\ PollStreamsClosed
                    /\ UNCHANGED lifeFrame
    \/ AlpacaDisConnect_Clear /\ pDisc' = TRUE /\ pGood' = FALSE
            /\ UNCHANGED <<lifeFrame, pPc, pReq, pFrom, mountPending, rxBuffer,
                           pSent>>
    \/ pPc = "idle" /\ AlpacaConnect /\ UNCHANGED <<lifeFrame, pollVars>>

SpecPoll == InitDecode /\ [][NextPoll]_vars

\* C11: the frame handed to a decoder is the mount's reply to the request
\* just written, never the reply to an earlier request that arrived late.
C11_FrameAnswersCurrentRequest ==
    [][DecodeStep => pFrom' = pReq']_vars

\* ------------------------------------------------------------------------
\* The worker thread beside the host and setup threads (SpecWorker)
\* ------------------------------------------------------------------------

\* The driver thread of the base class calls SendCmdsFromQueue and
\* SendCmdsPeriodic one after the other: either starts only when the other
\* has returned.
WorkerFree_Always == TRUE
WorkerFree == wPc = "idle" /\ pPc = "idle"

\* The value the setup page sends for conntype, the intent call made
\* beside the worker, and what the mount answers the worker's queries with.
SetupValues == {"ethernet"}

WorkerIntents == {op \in Intents : op.name = "AbortSlew"}
WorkerFrames(cmd) ==
    IF cmd = CmdGEP THEN {GEPFrame(-11970000, 67500000)}
    ELSE {GLSFrame("1", "2")}

\* The worker's tick, the host's intent calls and the setup handlers, with
\* the AlpacaDisConnect and AlpacaConnect of Setup_SaveFinish, interleave.
NextWorker ==
    \/ (\E op \in WorkerIntents : IntentCall(op))
            /\ nIntents < MaxWorkerIntents /\ UNCHANGED nonDriverVars
    \/ IntentStep /\ UNCHANGED nonDriverVars
    \/ IntentReturn /\ UNCHANGED nonDriverVars
    \/ DrainCall /\ WorkerFree /\ UNCHANGED nonDriverVars
    \/ DrainLoop /\ UNCHANGED nonDriverVars
    \/ DrainSend /\ UNCHANGED nonDrainVars
    \/ DrainShift /\ UNCHANGED nonDriverVars
    \/ PollCall /\ WorkerFree /\ Len(pSent) + 2 <= MaxWorkerRequests
            /\ UNCHANGED pollFrame
    \/ PollWrite("gepSend", CmdGEP, WorkerFrames(CmdGEP), "gepRead")
            /\ UNCHANGED pollFrame
    \/ PollWriteFailsGEP /\ UNCHANGED pollFrame
    \/ MountReply /\ UNCHANGED pollFrame
    \/ PollReadGEP /\ UNCHANGED pollFrame
    \/ PollTimeoutGEP /\ UNCHANGED pollFrame
    \/ PollHandleGLS /\ UNCHANGED pollFrame
    \/ PollWrite("glsWrite", CmdGLS, WorkerFrames(CmdGLS), "glsRead")
            /\ UNCHANGED pollFrame
    \/ PollWriteFailsGLS /\ UNCHANGED pollFrame
    \/ PollReadGLS /\ UNCHANGED pollFrame
    \/ PollTimeoutGLS /\ UNCHANGED pollFrame
    \/ Setup_SaveInit /\ UNCHANGED nonDriverVars
    \/ (\E v \in SetupValues : Setup_ProcessKeyword_conntype(v))
            /\ UNCHANGED nonDriverVars
    \/ Setup_SaveFinish_Disconnect /\ PollStreamsClosed /\ UNCHANGED lifeFrame
    \/ Setup_SaveFinish_Reconnect /\ UNCHANGED nonDriverVars
    \/ AlpacaDisConnect_Clear /\ pDisc' = TRUE /\ pGood' = FALSE
            /\ UNCHANGED <<lifeFrame, pPc, pReq, pFrom, mountPending, rxBuffer,
                           pSent>>

SpecWorker == InitDecode /\ [][NextWorker]_vars

\* The queue drain and an intent call beside AlpacaDisConnect and
\* AlpacaConnect called from a third thread.
NextClose ==
    \/ (\E op \in WorkerIntents : IntentCall(op))
            /\ nIntents < MaxWorkerIntents /\ UNCHANGED nonDriverVars
    \/ IntentStep /\ UNCHANGED nonDriverVars
    \/ IntentReturn /\ UNCHANGED nonDriverVars
    \/ DrainCall /\ UNCHANGED nonDriverVars
    \/ DrainLoop /\ UNCHANGED nonDriverVars
    \/ DrainSend /\ UNCHANGED nonDrainVars
    \/ DrainShift /\ UNCHANGED nonDriverVars
    \/ AlpacaDisConnect_Close /\ UNCHANGED nonDriverVars
    \/ AlpacaDisConnect_Clear /\ UNCHANGED nonDriverVars
    \/ AlpacaConnect /\ UNCHANGED nonDriverVars

SpecClose == Init /\ [][NextClose]_vars

\* Intent calls that enqueue one command and three commands, beside the
\* queue drain taken statement by statement.
RaceIntents == {op \in Intents : op.name \in {"TrackingOnOff", "SlewToRA_DEC"}}

NextRace ==
    \/ (\E op \in RaceIntents : IntentCall(op)) /\ UNCHANGED nonDriverVars
    \/ IntentStep /\ UNCHANGED nonDriverVars
    \/ IntentReturn /\ UNCHANGED nonDriverVars
    \/ DrainCall /\ UNCHANGED nonDriverVars
    \/ DrainLoop /\ UNCHANGED nonDriverVars
    \/ DrainSend /\ UNCHANGED nonDrainVars
    \/ DrainShiftLoop /\ UNCHANGED nonDriverVars
    \/ DrainDecrement /\ UNCHANGED nonDriverVars

SpecRace == InitDecode /\ [][NextRace]_vars

\* SendCmdsFromQueue with iOptron_SendCommand byte by byte: the intent calls
\* and the drain run to completion, every send of the drain is a call of
\* the byte-level machine on the head command, and the frame that call
\* returns is the reply the drain handles.
sendRestVars == <<cTelescopeStatus_String, dEntry, dFrame, dRet, dRead,
                  nFrames, pairVars, pollVars>>

NextDrain ==
    \/ (\E op \in RaceIntents : IntentCall(op)) /\ WorkerIdle
          /\ UNCHANGED nonDriverVars
    \/ IntentStep /\ UNCHANGED nonDriverVars
    \/ IntentReturn /\ UNCHANGED nonDriverVars
    \/ DrainCall /\ HostIdle /\ UNCHANGED nonDriverVars
    \/ DrainLoop /\ UNCHANGED nonDriverVars
    \/ wPc = "send" /\ FramerCall(cCmdQueue[SendIndex(cQueuedCmdCnt)].cmd)
          /\ UNCHANGED nonFramerVars
    \/ FramerWrite /\ UNCHANGED nonFramerVars
    \/ FramerReadByte /\ UNCHANGED nonFramerVars
    \/ FramerReadEOF /\ UNCHANGED nonFramerVars
    \/ FramerReadError /\ UNCHANGED nonFramerVars
    \/ FramerSelectTimeout /\ UNCHANGED nonFramerVars
    \/ FramerBufferFull /\ UNCHANGED nonFramerVars
    \/ FramerReturn /\ DrainSendReply(returnBuffer) /\ UNCHANGED sendRestVars
    \/ DrainShift /\ UNCHANGED nonDriverVars

\* The worker thread runs on and every select() returns within its
\* timeout: a step that can be taken is taken.
SpecDrain == InitDecode /\ [][NextDrain]_vars /\ WF_vars(NextDrain)

\* C23: on every tick of SendCmdsPeriodic with the connection open :GEP# is
\* written first and :GLS# second, nothing is written while a reply is
\* awaited, :GLS# is still written after a :GEP# that failed or timed out,
\* and with the connection not open nothing is written.
C23_PollOrder ==
    /\ [](\A i \in 1..Len(pSent) :
            pSent[i] = IF i % 2 = 1 THEN <<":", "G", "E", "P", "#">>
                       ELSE <<":", "G", "L", "S", "#">>)
    /\ [][/\ pSent' # pSent => cTelescopeConnectionOpen
          /\ (pPc = "idle" /\ ~cTelescopeConnectionOpen) => pPc' = "idle"
          /\ (pPc = "gepSend" /\ pPc' # pPc)
                => (Len(pSent') = Len(pSent) + 1 /\ pPc' \in {"gepRead", "glsSend"})
          /\ pPc \in {"gepRead", "glsRead"} => pSent' = pSent
          /\ (pPc = "gepRead" /\ pPc' # pPc) => pPc' = "glsSend"
          /\ (pPc = "glsSend" /\ pPc' # pPc) => pPc' = "glsWrite"
          /\ (pPc = "glsWrite" /\ pPc' # pPc)
                => Len(pSent') = Len(pSent) + 1]_vars

\* The :GEP# of a tick got no reply and its :GLS# has been written.
C23_Witness ==
    /\ pPc = "glsRead"
    /\ pSent = <<CmdGEP, CmdGLS>>
    /\ pFrom = 0
    /\ cIOptron_CommErrCnt = 1

\* C24: a poll tick whose :GEP# gets no reply bytes raises the
\* communication-error counter by exactly one, leaves cTelescopeInfoValid
\* false, and leaves right ascension and declination as they were.
C24_FailedPollInvalidates ==
    [][(pPc \in {"gepSend", "gepRead"} /\ pPc' = "glsSend" /\ nFrames' = nFrames)
        => /\ cIOptron_CommErrCnt' = cIOptron_CommErrCnt + 1
           /\ ~cTelescopeInfoValid'
           /\ RightAscension' = RightAscension
           /\ Declination' = Declination]_vars

\* C25: no failed write, read timeout, end of stream, malformed frame,
\* out-of-range value or unknown code closes the transport handle or clears
\* cTelescopeConnectionOpen: the flag is cleared and a handle is closed or
\* invalidated only by the steps of AlpacaDisConnect.
C25_OnlyDisconnectCloses ==
    [][/\ (cTelescopeConnectionOpen /\ ~cTelescopeConnectionOpen') => cPc = "clear"
       /\ (\E h \in openHandles : h \notin openHandles')
            => (cPc = "idle" /\ cPc' = "clear")
       /\ (HandleValid /\ ~HandleValid') => (cPc = "idle" /\ cPc' = "clear")
       /\ (pPc # "idle" \/ pPc' # "idle" \/ nFrames' # nFrames)
            => /\ cTelescopeConnectionOpen' = cTelescopeConnectionOpen
               /\ openHandles' = openHandles
               /\ cSocket_desc' = cSocket_desc
               /\ cDeviceConnFileDesc' = cDeviceConnFileDesc]_vars

\* Two :GEP# queries of one connection have failed and a status frame with
\* codes outside the tables has been decoded; the connection is open.
C25_Witness ==
    /\ ~pDisc
    /\ cIOptron_CommErrCnt = 2
    /\ dEntry = "GLS"
    /\ dFrame = GLSFrame("8", "5")
    /\ cTelescopeConnectionOpen
    /\ HandleOfType \in openHandles

\* C28: once AlpacaDisConnect has been called, cTelescopeInfoValid is false
\* and stays false until a position frame has been decoded on a connection
\* opened afterwards.
C28_InvalidUntilPositionDecoded ==
    (pDisc /\ cTelescopeInfoValid) => pGood

\* C29: when the connection is opened again after AlpacaDisConnect the
\* connection kind is what it was, and neither the queue, the
\* communication-error counter nor the mount state of the old connection is
\* still there: each has the value the constructor gave it.
C29_OnlyConfigSurvives ==
    [][(pDisc /\ ~cTelescopeConnectionOpen /\ cTelescopeConnectionOpen')
        => /\ cDeviceConnType' = cDeviceConnType
           /\ cQueuedCmdCnt' = 0
           /\ cIOptron_CommErrCnt' = 0
           /\ RightAscension' = 0
           /\ Declination' = 0
           /\ ~Slewing'
           /\ ~Tracking'
           /\ ~AtPark'
           /\ TrackingRate' = "Sidereal"]_vars

\* C26: at most one request/response cycle is outstanding on the transport
\* at any time: the queue drain is not inside iOptron_SendCommand while the
\* poll cycle is writing a query or awaiting its reply, neither writes
\* while the other is inside, and the threads of the intent calls and of the
\* setup handlers never write to the transport.
C26_OneCycleAtATime ==
    /\ [](~(wPc = "send" /\ pPc \in {"gepSend", "gepRead", "glsWrite", "glsRead"}))
    /\ [][/\ sent' # sent => (wPc = "send" /\ pPc = "idle")
          /\ pSent' # pSent => (pPc \in {"gepSend", "glsWrite"} /\ wPc = "idle")
          /\ (hPc' # hPc \/ cPc' # cPc) => (sent' = sent /\ pSent' = pSent)]_vars

\* The poll cycle awaits the reply to :GEP# while an intent call is running,
\* a command is queued and Setup_SaveFinish is inside AlpacaDisConnect.
C26_Witness ==
    /\ pPc = "gepRead"
    /\ hPc = "run"
    /\ cQueuedCmdCnt > 0
    /\ cPc = "clear"

C30_ConfigStableInFlight ==
    [][cDeviceConnType' # cDeviceConnType
        => /\ wPc # "send"
           /\ pPc \notin {"gepRead", "glsRead"}]_vars

\* C31: with intent calls enqueueing while SendCmdsFromQueue sends, shifts
\* and decrements, every accepted command is written exactly once: no
\* accepted command is written twice, and once the queue is empty and both
\* threads are at rest every accepted command has been written.
C31_EveryCommandSentOnce ==
    /\ \A i, j \in 1 .. Len(sent) :
            (i < j /\ sent[i].id > 0) => sent[i].id # sent[j].id
    /\ (hPc = "idle" /\ wPc = "idle" /\ cQueuedCmdCnt <= 0)
            => \A id \in 1 .. nextId : \E i \in 1 .. Len(sent) : sent[i].id = id

\* C32: in every reachable state 0 <= cQueuedCmdCnt <= queue capacity, and
\* the shift of SendCmdsFromQueue, which reads the slots 1 .. cQueuedCmdCnt,
\* reads no slot at or beyond the capacity.
C32_CountAndSlotsInBounds ==
    /\ cQueuedCmdCnt >= 0
    /\ cQueuedCmdCnt <= QueueCapacity
    /\ wPc = "shift" => cQueuedCmdCnt < QueueCapacity

\* C33: when AlpacaDisConnect returns (the step that leaves its state reset,
\* also in the call made by Setup_SaveFinish after Setup_ProcessKeyword
\* changed the connection type), no transport handle opened by the driver
\* is still open.
C33_NoHandleOpenAfterDisconnect ==
    [][(cPc = "clear" /\ cPc' # "clear") => openHandles' = {}]_vars

\* C34: the motion command :MS1# or :CM# is written to the mount only
\* immediately after the :SRA and :Sds commands of the same intent call, in
\* that order.  The handler enqueues the three one after the other, so
\* the two commands of its call are the ones numbered just before the
\* motion command, provided none of the call was refused (lost = 0).
\* The case is a command written on the connection its call found open
\* (no disconnect in between).
C34_MotionFollowsItsTarget ==
    [][LET e == cCmdQueue[SendIndex(cQueuedCmdCnt)]
           n == Len(sent)
       IN  (wPc = "send" /\ Len(sent') > n /\ e.cmd \in {CmdMS1, CmdCM}
                /\ e.ep = wFd)
               => /\ e.lost = 0
                  /\ n >= 2
                  /\ sent[n].id = e.id - 1
                  /\ sent[n - 1].id = e.id - 2]_vars

\* C35: after the position request of a poll tick cTelescopeInfoValid is
\* true (and with it the isValid that SendCmdsPeriodic returns) only if the
\* reply to that tick's :GEP# was decoded and stored both the declination
\* and the right ascension.
C35_ValidOnlyIfPositionStored ==
    [][(pPc \in {"gepSend", "gepRead"} /\ pPc' = "glsSend" /\ cTelescopeInfoValid')
        => /\ nFrames' # nFrames
           /\ rxBuffer # <<>>
           /\ Head(rxBuffer).req = pReq
           /\ LET buf == Head(rxBuffer).frame
                  sign == IF CharAt(buf, 1) = "-" THEN -1 ELSE 1
              IN  /\ CheckForValidResponse(buf)
                  /\ GEP_LongEnough(buf)
                  /\ DecInRange(Atoll(GEP_DecField(buf)) * sign)
                  /\ RAInRange(Atoll(GEP_RAField(buf)))]_vars

\* C36: with the connection open, the handle valid and no intent call
\* enqueueing during the drain, SendCmdsFromQueue terminates, and when it
\* returns the queue is empty and every queued command has been sent exactly
\* once; every iOptron_SendCommand call terminates and reads at most
\* maxBufferLen-1 bytes.
C36_DrainAndRequestTerminate ==
    /\ [](/\ totalBytesRead <= maxBufferLen - 1
          /\ Len(fConsumed) <= maxBufferLen - 1)
    /\ [][(wPc = "loop" /\ wPc' = "idle")
            => /\ cQueuedCmdCnt = 0
               /\ Len(sent) = nextId
               /\ \A i \in 1 .. Len(sent) : sent[i].id = i]_vars
    /\ (wPc # "idle") ~> (wPc = "idle")
    /\ (fPc # "idle") ~> (fPc = "idle")

\* C36 witness: a drain has sent the three commands of a slew and returned
\* with the queue empty, and its last request stopped at maxBufferLen-1
\* bytes without a terminator.
C36_Witness ==
    /\ wPc = "idle"
    /\ fPc = "idle"
    /\ nextId = 3
    /\ Len(sent) = 3
    /\ cQueuedCmdCnt = 0
    /\ fExit = "full"
    /\ totalBytesRead = maxBufferLen - 1

=============================================================================
